---------------------------- MODULE Spec2Model ----------------------------
(***************************************************************************)
(* State-machine model of the BridgeSpeak STT session pipeline:            *)
(*   backend/app/services/stt/rtzr_client.py   RTZRWebSocketClient         *)
(*   backend/app/services/stt/buffer.py        TranscriptBuffer            *)
(*   backend/app/services/room_manager.py      RoomManager                 *)
(*   backend/app/api/websocket.py              Socket.IO handlers, bridge  *)
(*                                                                         *)
(* Three kinds of threads act on one room:                                 *)
(*   - the primary thread (Socket.IO handlers audio_stream, disconnect),   *)
(*   - the session thread (run_async_websocket) running its own asyncio    *)
(*     loop with connect_websocket, receive_messages, send_audio and the   *)
(*     on_transcript / on_buffered_transcript tasks,                       *)
(*   - one threading.Timer thread per deferred flush.                      *)
(* Python statements of different threads interleave; coroutines of one    *)
(* loop interleave only at their await points.                             *)
(*                                                                         *)
(* Strings are sequences of one-character strings.  The characters stand   *)
(* for: " " a blank, "." a punctuation mark, "a" a syllable that is        *)
(* neither an ending nor a particle, "d" the ending '다', "g" the ending   *)
(* '가', "n" the particle '는' (also the head of the ending '는가'),       *)
(* "k" the particle '고', "w" a syllable pair the corrector rewrites       *)
(* (such as '성심') and "c" what it rewrites it to ('성신').               *)
(***************************************************************************)
EXTENDS Integers, Sequences, FiniteSets, TLC

\* ------------------------------------------------------------------ bounds
MaxFrames == 3      \* audio frames submitted to add_audio
MaxMsgs == 2        \* final fragments a session receives
SessionFrames == 2  \* audio frames submitted while fragments are processed
MaxRecv == 3        \* inbound messages of any shape the receive loop reads
MaxCalls == 3       \* add_text calls made on a buffer taken alone
MaxFlushes == 6     \* add_text calls made where every call leads to a flush
MaxRooms == 2       \* room ids in use
MaxSessions == 3    \* sessions create_room_from_nodejs starts
MaxTranslators == 2 \* session threads that translate
MaxTranslations == 2  \* translate_with_gpt calls of one thread

\* ------------------------------------------------------- program constants
TARGET_SENTENCES == 4
MAX_SENTENCES == 5
HISTORY_CAP == 5
CONTEXT_WINDOW == 3
MAX_CACHE_SIZE == 100

VARIABLES
  cfg,              \* the run's inputs: frame and message budgets, message kinds
  \* primary thread
  mainPc,           \* position of the primary thread inside a handler
  aaFrame,          \* the frame add_audio is holding
  nextFrame,        \* submission number of the next frame
  rooms,            \* room_id in room_manager.rooms
  closeTask,        \* the ws.close() task disconnect() created
  \* RTZRWebSocketClient
  is_running, connection_ready, ws, sock,
  pending_audio, audio_queue,
  connPc, flushIdx, recvPc, sendPc, sendBuf,
  sent,             \* frames written to the socket, in order
  placed,           \* frames put on audio_queue, in order of the puts
  received,         \* inbound messages, in receipt order
  \* session event loop
  loopSt,           \* websocket_loop: unset, set, running, stopped, closed
  readyQ,           \* coroutines scheduled on the loop and not yet started
  loopCur,          \* the task running a synchronous stretch (0: none)
  tasks,            \* on_transcript / on_buffered_transcript coroutines
  \* TranscriptBuffer
  current_sentences, partial_text, context_history,
  timer,            \* self.timer: index into timers, 0 for None
  timers,           \* every threading.Timer created
  at,               \* locals of the add_text call in progress
  \* bridge
  pending_callbacks,
  events,           \* sio.emit calls, in order
  flushCount,       \* batches produced so far
  handed,           \* batches passed to sync_callback
  \* RoomManager and the sessions create_room_from_nodejs has started
  room_index,       \* room_manager.rooms: room id -> number of its session, 0: absent
  sessions,         \* every session started: its room id and whether it is live
  \* TranslationService, shared by all sessions
  translation_cache,  \* the keys of the dict, in insertion order
  xl,               \* locals of each thread inside translate_with_gpt
  \* RTZRWebSocketClient.get_token
  _token,           \* self._token: the cached access token and its expiry
  now,              \* time.time()
  gt,               \* locals of the get_token call in progress
  posts,            \* requests made to /v1/authenticate
  \* TranscriptBuffer._split_into_sentences
  seg               \* locals of the call followed word by word

primaryVars == <<mainPc, aaFrame, nextFrame, rooms, closeTask>>
audioVars == <<pending_audio, audio_queue, placed>>
flagVars == <<is_running, connection_ready, ws, sock>>
connVars == <<connPc, flushIdx>>
recvVars == <<recvPc, received>>
sendVars == <<sendPc, sendBuf, sent>>
loopVars == <<loopSt, readyQ, loopCur, tasks>>
bufVars == <<current_sentences, partial_text, context_history, timer, timers, at>>
bridgeVars == <<pending_callbacks, events, flushCount, handed>>

registryVars == <<room_index, sessions>>
cacheVars == <<translation_cache, xl>>
tokenVars == <<_token, now, gt, posts>>
segVars == <<seg>>

\* What the steps of one session's pipeline leave alone.
envVars == <<cfg, registryVars, cacheVars, tokenVars, segVars>>

vars == <<envVars, primaryVars, audioVars, flagVars, connVars, recvVars, sendVars,
          loopVars, bufVars, bridgeVars>>

\* ----------------------------------------------------------------- strings
Blank == " "

IsBlankChar(c) == c = Blank

RECURSIVE LStrip(_)
LStrip(s) == IF s # <<>> /\ IsBlankChar(Head(s)) THEN LStrip(Tail(s)) ELSE s

RECURSIVE RStrip(_)
RStrip(s) ==
  IF s # <<>> /\ IsBlankChar(s[Len(s)]) THEN RStrip(SubSeq(s, 1, Len(s) - 1)) ELSE s

\* str.strip()
Strip(s) == RStrip(LStrip(s))

\* str.split(): the maximal runs of non-blank characters
RECURSIVE SplitFrom(_, _, _)
SplitFrom(s, cur, acc) ==
  IF s = <<>> THEN (IF cur = <<>> THEN acc ELSE Append(acc, cur))
  ELSE IF IsBlankChar(Head(s))
       THEN SplitFrom(Tail(s), <<>>, IF cur = <<>> THEN acc ELSE Append(acc, cur))
       ELSE SplitFrom(Tail(s), Append(cur, Head(s)), acc)

Split(s) == SplitFrom(s, <<>>, <<>>)

\* " ".join(parts)
RECURSIVE Join(_)
Join(parts) ==
  IF parts = <<>> THEN <<>>
  ELSE IF Len(parts) = 1 THEN parts[1]
  ELSE parts[1] \o <<Blank>> \o Join(Tail(parts))

StartsWith(w, p) == Len(w) >= Len(p) /\ SubSeq(w, 1, Len(p)) = p
EndsWith(w, e) == Len(w) >= Len(e) /\ SubSeq(w, Len(w) - Len(e) + 1, Len(w)) = e


Range(q) == {q[i] : i \in 1..Len(q)}

\* ------------------------------------------------------- inbound messages
\* A decoded message: alt is data.get("alternatives") being non-empty, text
\* its first alternative's "text", final and error the two optional fields.
Msg(alt, text, final, error) ==
  [alt |-> alt, text |-> text, final |-> final, error |-> error]

\* ------------------------------------------------------------------- Init
RoomIds == 1..MaxRooms

Translators == 1..MaxTranslators

\* room_manager when the first room has been created: its session is
\* registered under its id.
RegistryStart ==
  /\ room_index = [r \in RoomIds |-> IF r = 1 THEN 1 ELSE 0]
  /\ sessions = <<[room |-> 1, st |-> "live"]>>

\* translation_service after fill translations of different texts have been
\* stored (text i was the i-th), no thread being inside translate_with_gpt.
CacheStart(fill) ==
  /\ translation_cache = [i \in 1..fill |-> i]
  /\ xl = [t \in Translators |->
            [pc |-> "idle", key |-> 0, victim |-> 0, seen |-> 0, n |-> 0]]

\* room_manager and translation_service when the first room has been
\* created: the cache is empty and no thread is translating.
EnvInit == RegistryStart /\ CacheStart(0)

\* None, as get_token returns it and as self._token holds it.
None == 0

\* The access tokens the authentication endpoint may issue.
AccessTokens == {1, 2}

\* The lifetime get_token gives a token, in seconds.
TOKEN_TTL == 86400

\* self._token = None; its expiry is never read (line 36 short-circuits).
NoToken == [access_token |-> None, expire_at |-> 0]

\* The dict get_token builds from a reply carrying access token a at time t.
TokenDict(a, t) == [access_token |-> a, expire_at |-> t + TOKEN_TTL]

\* The client after __init__: no token, no call of get_token in progress.
ClientStart ==
  /\ _token = NoToken /\ now = 0 /\ posts = 0
  /\ gt = [pc |-> "idle", result |-> None]

\* The client once connect_websocket has obtained its token.
ClientConnected ==
  /\ _token = TokenDict(1, 0) /\ now = 0 /\ posts = 1
  /\ gt = [pc |-> "idle", result |-> None]

\* The state right after create_room_from_nodejs has built the room, the
\* client and the buffer and started the session thread.
PipelineInit ==
  /\ ClientStart
  /\ mainPc = "idle" /\ aaFrame = 0 /\ nextFrame = 1
  /\ rooms = TRUE /\ closeTask = "none"
  /\ is_running = FALSE /\ connection_ready = FALSE
  /\ ws = FALSE /\ sock = "none"
  /\ pending_audio = <<>> /\ audio_queue = <<>>
  /\ connPc = "idle" /\ flushIdx = 0
  /\ recvPc = "none" /\ sendPc = "none" /\ sendBuf = 0
  /\ sent = <<>> /\ placed = <<>> /\ received = <<>>
  /\ loopSt = "unset" /\ readyQ = <<>> /\ loopCur = 0 /\ tasks = <<>>
  /\ current_sentences = <<>> /\ partial_text = <<>> /\ context_history = <<>>
  /\ timer = 0 /\ timers = <<>>
  /\ at = [pc |-> "idle"]
  /\ pending_callbacks = <<>> /\ events = <<>>
  /\ flushCount = 0 /\ handed = <<>>

\* No call of _split_into_sentences is being followed.
SplitterIdle == seg = [pc |-> "idle"]

InitWith(c) == cfg = c /\ EnvInit /\ PipelineInit /\ SplitterIdle

\* ------------------------------------------- primary thread: audio_stream
\* add_audio taking the queue branch whatever connection_ready is
AddAudioReadAlwaysPut ==
  /\ mainPc = "idle"
  /\ rooms
  /\ nextFrame <= cfg.frames
  /\ aaFrame' = nextFrame
  /\ nextFrame' = nextFrame + 1
  /\ mainPc' = "aa_put"
  /\ UNCHANGED <<envVars, rooms, closeTask, audioVars, flagVars, connVars, recvVars,
                 sendVars, loopVars, bufVars, bridgeVars>>

\* audio_stream -> add_audio, first half: the room lookup and the read of
\* connection_ready that selects the branch.
AddAudioRead ==
  /\ mainPc = "idle"
  /\ rooms
  /\ nextFrame <= cfg.frames
  /\ aaFrame' = nextFrame
  /\ nextFrame' = nextFrame + 1
  /\ mainPc' = IF connection_ready THEN "aa_put" ELSE "aa_pend"
  /\ UNCHANGED <<envVars, rooms, closeTask, audioVars, flagVars, connVars, recvVars,
                 sendVars, loopVars, bufVars, bridgeVars>>

\* add_audio, second half: audio_queue.put or pending_audio.append.
AddAudioAct ==
  /\ mainPc \in {"aa_put", "aa_pend"}
  /\ IF mainPc = "aa_put"
       THEN /\ audio_queue' = Append(audio_queue, aaFrame)
            /\ placed' = Append(placed, aaFrame)
            /\ UNCHANGED pending_audio
       ELSE /\ pending_audio' = Append(pending_audio, aaFrame)
            /\ UNCHANGED <<audio_queue, placed>>
  /\ mainPc' = "idle"
  /\ aaFrame' = 0
  /\ UNCHANGED <<envVars, nextFrame, rooms, closeTask, flagVars, connVars, recvVars,
                 sendVars, loopVars, bufVars, bridgeVars>>

\* --------------------------------- primary thread: disconnect -> close_room
\* close_room: room.status = CLOSING, then disconnect()'s first statement.
CloseRoom ==
  /\ mainPc = "idle"
  /\ rooms
  /\ is_running' = FALSE
  /\ mainPc' = "disc_ready"
  /\ UNCHANGED <<envVars, aaFrame, nextFrame, rooms, closeTask, connection_ready, ws,
                 sock, audioVars, connVars, recvVars, sendVars, loopVars, bufVars,
                 bridgeVars>>

\* disconnect(): self.connection_ready = False
DisconnectReady ==
  /\ mainPc = "disc_ready"
  /\ connection_ready' = FALSE
  /\ mainPc' = "disc_ws"
  /\ UNCHANGED <<envVars, aaFrame, nextFrame, rooms, closeTask, is_running, ws, sock,
                 audioVars, connVars, recvVars, sendVars, loopVars, bufVars,
                 bridgeVars>>

\* disconnect(): if self.ws: create_task(self.ws.close()); then close_room
\* deletes the room.  Neither touches room.transcript_buffer.
DisconnectWs ==
  /\ mainPc = "disc_ws"
  /\ closeTask' = IF ws THEN "pending" ELSE closeTask
  /\ rooms' = FALSE
  /\ mainPc' = "idle"
  /\ UNCHANGED <<envVars, aaFrame, nextFrame, flagVars, audioVars, connVars, recvVars,
                 sendVars, loopVars, bufVars, bridgeVars>>

\* The ws.close() task runs on the primary loop against a socket owned by the
\* session loop: it either gets the close through or fails without effect.
WsCloseTask ==
  /\ closeTask = "pending"
  /\ closeTask' = "done"
  /\ \E through \in BOOLEAN :
       sock' = IF through /\ sock = "open" THEN "closed" ELSE sock
  /\ UNCHANGED <<envVars, mainPc, aaFrame, nextFrame, rooms, is_running,
                 connection_ready, ws, audioVars, connVars, recvVars, sendVars,
                 loopVars, bufVars, bridgeVars>>

\* ------------------------------------- session thread: run_async_websocket
\* new_event_loop(); websocket_loop = loop
ThreadStart ==
  /\ loopSt = "unset"
  /\ loopSt' = "set"
  /\ UNCHANGED <<envVars, primaryVars, audioVars, flagVars, connVars, recvVars,
                 sendVars, readyQ, loopCur, tasks, bufVars, bridgeVars>>

\* A coroutine handed to run_coroutine_threadsafe / create_task.
\* msg is the inbound message an on_transcript call came from, n the number of
\* the batch an on_buffered_transcript call carries, frag the argument the
\* coroutine was created with.
NewTask(kind, text, context, n, msg) ==
  [kind |-> kind, pc |-> "queued", text |-> text, context |-> context, n |-> n,
   msg |-> msg, frag |-> text]

RECURSIVE ScheduleAll(_, _)
ScheduleAll(ts, cbs) ==
  IF cbs = <<>> THEN ts
  ELSE ScheduleAll(Append(ts, NewTask("ob", cbs[1].text, cbs[1].context, cbs[1].n, 0)),
                   Tail(cbs))

\* The replay of pending_callbacks, then loop.run_until_complete(...) starts
\* connect_websocket.
ThreadPending ==
  /\ loopSt = "set"
  /\ loopSt' = "running"
  /\ tasks' = ScheduleAll(tasks, pending_callbacks)
  /\ readyQ' = readyQ \o [i \in 1..Len(pending_callbacks) |-> Len(tasks) + i]
  /\ pending_callbacks' = <<>>
  /\ connPc' = "token"
  /\ UNCHANGED <<envVars, primaryVars, audioVars, flagVars, flushIdx, recvVars,
                 sendVars, loopCur, bufVars, events, flushCount, handed>>

\* loop.close() in the finally of run_async_websocket: what is still
\* scheduled is dropped.
ThreadClose ==
  /\ loopSt = "stopped"
  /\ loopSt' = "closed"
  /\ readyQ' = <<>>
  /\ UNCHANGED <<envVars, primaryVars, audioVars, flagVars, connVars, recvVars,
                 sendVars, loopCur, tasks, bufVars, bridgeVars>>

\* The loop runs a coroutine of its own only while no task is inside a
\* synchronous stretch.
LoopFree == loopSt = "running" /\ loopCur = 0

\* ------------------------------------------------------ connect_websocket
\* connect_websocket has returned: without a token (line 73), after a failed
\* handshake, or after the connection it served has ended.
ConnReturned == connPc \in {"no_token", "refused", "done"}

\* get_token(), the client's first: the endpoint is asked and the reply is
\* cached; no token, no connection (return before the try).
ConnToken ==
  /\ connPc = "token"
  /\ LoopFree
  /\ \E token \in BOOLEAN :
       IF token THEN connPc' = "handshake" /\ _token' = TokenDict(1, now)
                     /\ UNCHANGED loopSt
       ELSE connPc' = "no_token" /\ loopSt' = "stopped" /\ UNCHANGED _token
  /\ posts' = posts + 1
  /\ UNCHANGED <<cfg, registryVars, cacheVars, segVars, now, gt, primaryVars,
                 audioVars, flagVars, flushIdx, recvVars,
                 sendVars, readyQ, loopCur, tasks, bufVars, bridgeVars>>

\* websockets.connect: on success self.ws = websocket; on failure the
\* except and finally clauses run.
ConnHandshake ==
  /\ connPc = "handshake"
  /\ LoopFree
  /\ \E ok \in BOOLEAN :
       IF ok
         THEN /\ ws' = TRUE /\ sock' = "open" /\ connPc' = "running"
              /\ UNCHANGED <<is_running, connection_ready, loopSt>>
         ELSE /\ is_running' = FALSE /\ connection_ready' = FALSE
              /\ connPc' = "refused" /\ loopSt' = "stopped"
              /\ UNCHANGED <<ws, sock>>
  /\ UNCHANGED <<envVars, primaryVars, audioVars, flushIdx, recvVars, sendVars,
                 readyQ, loopCur, tasks, bufVars, bridgeVars>>

\* self.is_running = True, then await asyncio.sleep(0.5)
ConnRunning ==
  /\ connPc = "running"
  /\ LoopFree
  /\ is_running' = TRUE
  /\ connPc' = "settle"
  /\ UNCHANGED <<envVars, primaryVars, audioVars, connection_ready, ws, sock, flushIdx,
                 recvVars, sendVars, loopVars, bufVars, bridgeVars>>

\* after the sleep: self.connection_ready = True
ConnSettle ==
  /\ connPc = "settle"
  /\ LoopFree
  /\ connection_ready' = TRUE
  /\ connPc' = "flushCheck"
  /\ UNCHANGED <<envVars, primaryVars, audioVars, is_running, ws, sock, flushIdx,
                 recvVars, sendVars, loopVars, bufVars, bridgeVars>>

\* if self.pending_audio:
ConnFlushCheck ==
  /\ connPc = "flushCheck"
  /\ IF pending_audio # <<>>
       THEN connPc' = "flushIter" /\ flushIdx' = 1
       ELSE connPc' = "spawn" /\ UNCHANGED flushIdx
  /\ UNCHANGED <<envVars, primaryVars, audioVars, flagVars, recvVars, sendVars,
                 loopVars, bufVars, bridgeVars>>

\* for audio_data in self.pending_audio: self.audio_queue.put(audio_data)
\* The list iterator reads the list's length at every step.
ConnFlushIter ==
  /\ connPc = "flushIter"
  /\ IF flushIdx <= Len(pending_audio)
       THEN /\ audio_queue' = Append(audio_queue, pending_audio[flushIdx])
            /\ placed' = Append(placed, pending_audio[flushIdx])
            /\ flushIdx' = flushIdx + 1
            /\ UNCHANGED connPc
       ELSE /\ connPc' = "flushClear"
            /\ UNCHANGED <<audio_queue, placed, flushIdx>>
  /\ UNCHANGED <<envVars, primaryVars, pending_audio, flagVars, recvVars, sendVars,
                 loopVars, bufVars, bridgeVars>>

\* self.pending_audio.clear()
ConnFlushClear ==
  /\ connPc = "flushClear"
  /\ pending_audio' = <<>>
  /\ connPc' = "spawn"
  /\ UNCHANGED <<envVars, primaryVars, audio_queue, placed, flagVars, flushIdx,
                 recvVars, sendVars, loopVars, bufVars, bridgeVars>>

\* create_task(receive_messages()), create_task(send_audio()), await gather
ConnSpawn ==
  /\ connPc = "spawn"
  /\ recvPc' = "check"
  /\ sendPc' = "check"
  /\ connPc' = "gather"
  /\ UNCHANGED <<envVars, primaryVars, audioVars, flagVars, flushIdx, received, sendBuf,
                 sent, loopVars, bufVars, bridgeVars>>

\* The loop runs what was scheduled on it in scheduling order.  Every
\* on_transcript coroutine is scheduled by receive_messages, so it has been
\* started by the time the loop resumes connect_websocket after the gather.
NoTranscriptQueued == \A k \in 1..Len(readyQ) : tasks[readyQ[k]].kind # "ot"

\* connect_websocket starting over when the connection has ended
ConnFinishRetry ==
  /\ connPc = "gather"
  /\ LoopFree
  /\ recvPc = "done" /\ sendPc = "done"
  /\ NoTranscriptQueued
  /\ sock' = "closed"
  /\ is_running' = FALSE
  /\ connection_ready' = FALSE
  /\ connPc' = "token"
  /\ UNCHANGED <<envVars, primaryVars, audioVars, ws, flushIdx, recvVars, sendVars,
                 loopVars, bufVars, bridgeVars>>

\* gather returns when both tasks have ended; leaving the async with closes
\* the socket; finally clears both flags; run_until_complete returns.
ConnFinish ==
  /\ connPc = "gather"
  /\ LoopFree
  /\ recvPc = "done" /\ sendPc = "done"
  /\ NoTranscriptQueued
  /\ sock' = "closed"
  /\ is_running' = FALSE
  /\ connection_ready' = FALSE
  /\ connPc' = "done"
  /\ loopSt' = "stopped"
  /\ UNCHANGED <<envVars, primaryVars, audioVars, ws, flushIdx, recvVars, sendVars,
                 readyQ, loopCur, tasks, bufVars, bridgeVars>>


\* ------------------------------------------------------- receive_messages
\* The callback fires for a message with alternatives whose stripped first
\* text is non-empty and whose final flag is set; the error field is only
\* logged, whatever else the message carries.
TriggersInterim(m) == m.alt /\ Strip(m.text) # <<>>

Triggers(m) == m.alt /\ Strip(m.text) # <<>> /\ m.final

\* sync_on_transcript(text): run_coroutine_threadsafe(on_transcript(text), loop)
OnTranscriptCall(ts, text, msg) == Append(ts, NewTask("ot", text, <<>>, 0, msg))

\* while self.is_running and self.ws: ... ; finally: self.is_running = False
RecvCheck ==
  /\ recvPc = "check"
  /\ LoopFree
  /\ IF is_running /\ ws
       THEN recvPc' = "recv" /\ UNCHANGED is_running
       ELSE recvPc' = "done" /\ is_running' = FALSE
  /\ UNCHANGED <<envVars, primaryVars, audioVars, connection_ready, ws, sock, connVars,
                 received, sendVars, loopVars, bufVars, bridgeVars>>

\* message = await self.ws.recv(), decoded and handled.
RecvMessage ==
  /\ recvPc = "recv"
  /\ LoopFree
  /\ sock = "open"
  /\ Len(received) < cfg.msgs
  /\ \E m \in cfg.kinds :
       /\ received' = Append(received, m)
       /\ IF Triggers(m)
            THEN /\ tasks' = OnTranscriptCall(tasks, Strip(m.text), Len(received) + 1)
                 /\ readyQ' = Append(readyQ, Len(tasks) + 1)
            ELSE UNCHANGED <<tasks, readyQ>>
  /\ recvPc' = "check"
  /\ UNCHANGED <<envVars, primaryVars, audioVars, flagVars, connVars, sendVars, loopSt,
                 loopCur, bufVars, bridgeVars>>

\* recv() raises on a closed or broken socket: except, then finally.
RecvClosed ==
  /\ recvPc = "recv"
  /\ LoopFree
  /\ sock = "closed"
  /\ recvPc' = "done"
  /\ is_running' = FALSE
  /\ UNCHANGED <<envVars, primaryVars, audioVars, connection_ready, ws, sock, connVars,
                 received, sendVars, loopVars, bufVars, bridgeVars>>

\* The remote endpoint closes the socket, or the network fails.
RemoteClose ==
  /\ sock = "open"
  /\ sock' = "closed"
  /\ UNCHANGED <<envVars, primaryVars, audioVars, is_running, connection_ready, ws,
                 connVars, recvVars, sendVars, loopVars, bufVars, bridgeVars>>

\* ------------------------------------------------------------- send_audio
\* send_audio taking the newest frame of the queue instead of the oldest
SendCheckNewestFirst ==
  /\ sendPc = "check"
  /\ LoopFree
  /\ IF is_running /\ ws
       THEN IF audio_queue # <<>>
              THEN /\ sendBuf' = audio_queue[Len(audio_queue)]
                   /\ audio_queue' = SubSeq(audio_queue, 1, Len(audio_queue) - 1)
                   /\ sendPc' = "send"
                   /\ UNCHANGED is_running
              ELSE /\ sendPc' = "sleep"
                   /\ UNCHANGED <<sendBuf, audio_queue, is_running>>
       ELSE /\ sendPc' = "done"
            /\ is_running' = FALSE
            /\ UNCHANGED <<sendBuf, audio_queue>>
  /\ UNCHANGED <<envVars, primaryVars, pending_audio, placed, connection_ready, ws,
                 sock, connVars, recvVars, sent, loopVars, bufVars, bridgeVars>>

\* One turn of the while loop up to its await: take a frame and start
\* sending it, or start the 10 ms sleep; or leave the loop (finally).
SendCheck ==
  /\ sendPc = "check"
  /\ LoopFree
  /\ IF is_running /\ ws
       THEN IF audio_queue # <<>>
              THEN /\ sendBuf' = Head(audio_queue)
                   /\ audio_queue' = Tail(audio_queue)
                   /\ sendPc' = "send"
                   /\ UNCHANGED is_running
              ELSE /\ sendPc' = "sleep"
                   /\ UNCHANGED <<sendBuf, audio_queue, is_running>>
       ELSE /\ sendPc' = "done"
            /\ is_running' = FALSE
            /\ UNCHANGED <<sendBuf, audio_queue>>
  /\ UNCHANGED <<envVars, primaryVars, pending_audio, placed, connection_ready, ws,
                 sock, connVars, recvVars, sent, loopVars, bufVars, bridgeVars>>

\* await self.ws.send(audio_data) completes, or raises on a dead socket.
SendDone ==
  /\ sendPc = "send"
  /\ LoopFree
  /\ IF sock = "open"
       THEN /\ sent' = Append(sent, sendBuf)
            /\ sendPc' = "check"
            /\ UNCHANGED is_running
       ELSE /\ sendPc' = "done"
            /\ is_running' = FALSE
            /\ UNCHANGED sent
  /\ sendBuf' = 0
  /\ UNCHANGED <<envVars, primaryVars, audioVars, connection_ready, ws, sock, connVars,
                 recvVars, loopVars, bufVars, bridgeVars>>

\* await asyncio.sleep(0.01) is over.
SendWake ==
  /\ sendPc = "sleep"
  /\ LoopFree
  /\ sendPc' = "check"
  /\ UNCHANGED <<envVars, primaryVars, audioVars, flagVars, connVars, recvVars, sendBuf,
                 sent, loopVars, bufVars, bridgeVars>>

\* ------------------------------------------------------- TranscriptBuffer
\* self.sentence_endings and the continuation particles of
\* _split_into_sentences, as far as the model's characters spell them.
sentence_endings == {<<"d">>, <<"g">>, <<"n", "g">>}
particles == {<<"n">>, <<"k">>}
punctuation == {".", "!", "?"}

\* is_sentence_end for words[i]
IsSentenceEnd(words, i) ==
  \/ words[i][Len(words[i])] \in punctuation
  \/ /\ \E e \in sentence_endings : EndsWith(words[i], e)
     /\ i + 1 <= Len(words) => ~ \E q \in particles : StartsWith(words[i + 1], q)

RECURSIVE SplitWords(_, _, _, _)
SplitWords(words, i, current, sentences) ==
  IF i > Len(words)
    THEN [sentences |-> sentences, remaining |-> Strip(current)]
    ELSE IF IsSentenceEnd(words, i)
           THEN SplitWords(words, i + 1, <<>>,
                           Append(sentences, Strip(current \o words[i])))
           ELSE SplitWords(words, i + 1, current \o words[i] \o <<Blank>>, sentences)

\* _split_into_sentences(text)
SplitIntoSentences(text) == SplitWords(Split(text), 1, <<>>, <<>>)

\* TextCorrector.fix_text: strip, then the dictionary rewrites.  Of the
\* dictionary only the rewrite of "w" to "c" is spelt by the model's
\* characters; no modelled text holds a subject or verb syllable, so the
\* subject restoration never applies.
FixText(text, context) ==
  LET t == Strip(text) IN [i \in 1..Len(t) |-> IF t[i] = "w" THEN "c" ELSE t[i]]

LastN(q, n) == IF Len(q) <= n THEN q ELSE SubSeq(q, Len(q) - n + 1, Len(q))

\* The statements of _process_sentences, run by whichever thread called it.
\* f holds the caller's locals; each operator gives one variable's value
\* after the statement at f.pc.
ProcPcs == {"p_check", "p_copy", "p_partial", "p_ctx", "p_hist", "p_clear"}

ProcessContext == Join(LastN(context_history, CONTEXT_WINDOW))

\* _process_sentences never finding the buffer empty
BufferNeverEmpty == FALSE

\* if not self.current_sentences and not self.partial_text
BufferEmpty == current_sentences = <<>> /\ partial_text = <<>>

ProcessLocals(f) ==
  CASE f.pc = "p_check" ->
         [f EXCEPT !.pc = IF BufferEmpty THEN "ret_none" ELSE "p_copy"]
    [] f.pc = "p_copy" -> [f EXCEPT !.pc = "p_partial", !.stp = current_sentences]
    [] f.pc = "p_partial" ->
         [f EXCEPT !.pc = "p_ctx",
                   !.stp = IF partial_text # <<>> THEN Append(f.stp, partial_text)
                           ELSE f.stp]
    [] f.pc = "p_ctx" ->
         [f EXCEPT !.pc = "p_hist", !.text = Join(f.stp), !.context = ProcessContext]
    [] f.pc = "p_hist" ->
         [f EXCEPT !.pc = "p_clear", !.text = FixText(f.text, f.context),
                   !.n = flushCount + 1]
    [] f.pc = "p_clear" -> [f EXCEPT !.pc = "ret"]

ProcessPartial(f) == IF f.pc = "p_partial" THEN <<>> ELSE partial_text

\* _process_sentences appending to context_history without trimming it
ProcessHistoryUntrimmed(f) ==
  IF f.pc = "p_hist"
    THEN Append(context_history, FixText(f.text, f.context))
    ELSE context_history

ProcessHistory(f) ==
  IF f.pc = "p_hist"
    THEN LastN(Append(context_history, FixText(f.text, f.context)), HISTORY_CAP)
    ELSE context_history

ProcessSentences(f) == IF f.pc = "p_clear" THEN <<>> ELSE current_sentences

\* Batches are numbered in the order in which their texts enter
\* context_history.
ProcessCount(f) == IF f.pc = "p_hist" THEN flushCount + 1 ELSE flushCount

\* fresh records that the call found the buffer empty: neither a sentence
\* nor a partial text was outstanding when it was entered.
Locals(pc, text) ==
  [pc |-> pc, text |-> text, rem |-> <<>>, cnt |-> 0, stp |-> <<>>,
   context |-> <<>>, n |-> 0,
   fresh |-> current_sentences = <<>> /\ partial_text = <<>>]

\* fresh is that of the call that started the timer.
NewTimer(kind) ==
  [st |-> "armed", kind |-> kind, pc |-> "wait", text |-> <<>>, rem |-> <<>>,
   stp |-> <<>>, context |-> <<>>, n |-> 0, fresh |-> at.fresh]

\* ---------------------------------------------------------- on_transcript
\* on_transcript started without its sio.emit
OTStartSilent ==
  /\ LoopFree
  /\ readyQ # <<>>
  /\ tasks[Head(readyQ)].kind = "ot"
  /\ readyQ' = Tail(readyQ)
  /\ tasks' = [tasks EXCEPT ![Head(readyQ)].pc = "add"]
  /\ UNCHANGED <<envVars, primaryVars, audioVars, flagVars, connVars, recvVars,
                 sendVars, loopSt, loopCur, bufVars, bridgeVars>>

\* The loop starts the next scheduled on_transcript coroutine, which emits
\* the 'stt' event and reaches its first await.
OTStart ==
  /\ LoopFree
  /\ readyQ # <<>>
  /\ tasks[Head(readyQ)].kind = "ot"
  /\ readyQ' = Tail(readyQ)
  /\ events' = Append(events, [type |-> "stt", text |-> tasks[Head(readyQ)].text,
                               n |-> 0])
  /\ tasks' = [tasks EXCEPT ![Head(readyQ)].pc = "add"]
  /\ UNCHANGED <<envVars, primaryVars, audioVars, flagVars, connVars, recvVars,
                 sendVars, loopSt, loopCur, bufVars, pending_callbacks, flushCount,
                 handed>>

\* add_text entered without the blank test
AddTextEnterUnchecked(i) ==
  /\ LoopFree
  /\ tasks[i].kind = "ot" /\ tasks[i].pc = "add"
  /\ loopCur' = i
  /\ tasks' = [tasks EXCEPT ![i].pc = "in_add_text"]
  /\ at' = Locals("cancel", Strip(tasks[i].text))
  /\ UNCHANGED <<envVars, primaryVars, audioVars, flagVars, connVars, recvVars,
                 sendVars, loopSt, readyQ, current_sentences, partial_text,
                 context_history, timer, timers, bridgeVars>>

\* on_transcript resumes and calls add_text: the blank test and the strip.
AddTextEnter(i) ==
  /\ LoopFree
  /\ tasks[i].kind = "ot" /\ tasks[i].pc = "add"
  /\ loopCur' = i
  /\ tasks' = [tasks EXCEPT ![i].pc = "in_add_text"]
  /\ at' = IF Strip(tasks[i].text) = <<>> THEN Locals("ret_none", <<>>)
           ELSE Locals("cancel", Strip(tasks[i].text))
  /\ UNCHANGED <<envVars, primaryVars, audioVars, flagVars, connVars, recvVars,
                 sendVars, loopSt, readyQ, current_sentences, partial_text,
                 context_history, timer, timers, bridgeVars>>

\* add_text forgetting the timer without cancelling it
AddTextForgetTimer ==
  /\ at.pc = "cancel"
  /\ timers' = timers
  /\ timer' = 0
  /\ at' = [at EXCEPT !.pc = "merge"]
  /\ UNCHANGED <<envVars, primaryVars, audioVars, flagVars, connVars, recvVars,
                 sendVars, loopVars, current_sentences, partial_text,
                 context_history, bridgeVars>>

\* if self.timer: self.timer.cancel(); self.timer = None
\* cancel() stops a timer that has not fired yet and nothing else.
AddTextCancel ==
  /\ at.pc = "cancel"
  /\ timers' = IF timer # 0 /\ timers[timer].st = "armed"
                 THEN [timers EXCEPT ![timer].st = "cancelled"] ELSE timers
  /\ timer' = 0
  /\ at' = [at EXCEPT !.pc = "merge"]
  /\ UNCHANGED <<envVars, primaryVars, audioVars, flagVars, connVars, recvVars,
                 sendVars, loopVars, current_sentences, partial_text,
                 context_history, bridgeVars>>

\* if self.partial_text: text = self.partial_text + " " + text; clear it
AddTextMerge ==
  /\ at.pc = "merge"
  /\ at' = [at EXCEPT !.pc = "split",
                      !.text = IF partial_text # <<>>
                                 THEN partial_text \o <<Blank>> \o at.text
                                 ELSE at.text]
  /\ partial_text' = <<>>
  /\ UNCHANGED <<envVars, primaryVars, audioVars, flagVars, connVars, recvVars,
                 sendVars, loopVars, current_sentences, context_history, timer,
                 timers, bridgeVars>>

\* sentences, remaining = self._split_into_sentences(text); extend
\* cnt is len(self.current_sentences) right after the extend.
AddTextSplit ==
  /\ at.pc = "split"
  /\ current_sentences' = current_sentences \o SplitIntoSentences(at.text).sentences
  /\ at' = [at EXCEPT !.pc = "remain", !.rem = SplitIntoSentences(at.text).remaining,
                      !.cnt = Len(current_sentences')]
  /\ UNCHANGED <<envVars, primaryVars, audioVars, flagVars, connVars, recvVars,
                 sendVars, loopVars, partial_text, context_history, timer, timers,
                 bridgeVars>>

\* if remaining: self.partial_text = remaining
AddTextRemain ==
  /\ at.pc = "remain"
  /\ partial_text' = IF at.rem # <<>> THEN at.rem ELSE partial_text
  /\ at' = [at EXCEPT !.pc = "decide"]
  /\ UNCHANGED <<envVars, primaryVars, audioVars, flagVars, connVars, recvVars,
                 sendVars, loopVars, current_sentences, context_history, timer,
                 timers, bridgeVars>>

\* should_process, and otherwise the arming of the deferred-flush timer
ShouldProcess ==
  \/ Len(current_sentences) >= TARGET_SENTENCES
  \/ Len(current_sentences) >= MAX_SENTENCES

AddTextDecide ==
  /\ at.pc = "decide"
  /\ IF ShouldProcess
       THEN /\ at' = [at EXCEPT !.pc = "p_check"]
            /\ UNCHANGED <<timer, timers>>
       ELSE /\ at' = [at EXCEPT !.pc = "ret_none"]
            /\ IF current_sentences # <<>>
                 THEN /\ timers' = Append(timers, NewTimer("sentence"))
                      /\ timer' = Len(timers) + 1
                 ELSE IF partial_text # <<>>
                        THEN /\ timers' = Append(timers, NewTimer("partial"))
                             /\ timer' = Len(timers) + 1
                        ELSE UNCHANGED <<timer, timers>>
  /\ UNCHANGED <<envVars, primaryVars, audioVars, flagVars, connVars, recvVars,
                 sendVars, loopVars, current_sentences, partial_text,
                 context_history, bridgeVars>>

\* return self._process_sentences(), one statement at a time
AddTextProcess ==
  /\ at.pc \in ProcPcs
  /\ at' = ProcessLocals(at)
  /\ partial_text' = ProcessPartial(at)
  /\ context_history' = ProcessHistory(at)
  /\ current_sentences' = ProcessSentences(at)
  /\ flushCount' = ProcessCount(at)
  /\ UNCHANGED <<envVars, primaryVars, audioVars, flagVars, connVars, recvVars,
                 sendVars, loopVars, timer, timers, pending_callbacks, events,
                 handed>>

\* add_text handing its batch to the callback as well as returning it
AddTextReturnAndCallback ==
  /\ at.pc \in {"ret", "ret_none"}
  /\ loopCur' = 0
  /\ at' = [pc |-> "idle"]
  /\ IF at.pc = "ret"
       THEN /\ tasks' = Append([tasks EXCEPT ![loopCur].pc = "translate",
                                             ![loopCur].text = at.text,
                                             ![loopCur].context = at.context,
                                             ![loopCur].n = at.n],
                               NewTask("ob", at.text, at.context, at.n, 0))
            /\ readyQ' = Append(readyQ, Len(tasks) + 1)
            /\ handed' = Append(handed, at.n)
            /\ events' = Append(events, [type |-> "prov", text |-> at.text,
                                         n |-> at.n])
       ELSE /\ tasks' = [tasks EXCEPT ![loopCur].pc = "done"]
            /\ UNCHANGED <<events, readyQ, handed>>
  /\ UNCHANGED <<envVars, primaryVars, audioVars, flagVars, connVars, recvVars,
                 sendVars, loopSt, current_sentences, partial_text,
                 context_history, timer, timers, pending_callbacks, flushCount>>

\* add_text returns to on_transcript: with a batch, on_buffered_transcript
\* is awaited inline and emits the provisional event; without, the task ends.
AddTextReturn ==
  /\ at.pc \in {"ret", "ret_none"}
  /\ loopCur' = 0
  /\ at' = [pc |-> "idle"]
  /\ IF at.pc = "ret"
       THEN /\ tasks' = [tasks EXCEPT ![loopCur].pc = "translate",
                                      ![loopCur].text = at.text,
                                      ![loopCur].context = at.context,
                                      ![loopCur].n = at.n]
            /\ events' = Append(events, [type |-> "prov", text |-> at.text,
                                         n |-> at.n])
       ELSE /\ tasks' = [tasks EXCEPT ![loopCur].pc = "done"]
            /\ UNCHANGED events
  /\ UNCHANGED <<envVars, primaryVars, audioVars, flagVars, connVars, recvVars,
                 sendVars, loopSt, readyQ, current_sentences, partial_text,
                 context_history, timer, timers, pending_callbacks, flushCount,
                 handed>>

\* ------------------------------------------------- on_buffered_transcript
\* The loop starts a coroutine scheduled by sync_callback: the provisional
\* event, then the first await.
OBStart ==
  /\ LoopFree
  /\ readyQ # <<>>
  /\ tasks[Head(readyQ)].kind = "ob"
  /\ readyQ' = Tail(readyQ)
  /\ events' = Append(events, [type |-> "prov", text |-> tasks[Head(readyQ)].text,
                               n |-> tasks[Head(readyQ)].n])
  /\ tasks' = [tasks EXCEPT ![Head(readyQ)].pc = "translate"]
  /\ UNCHANGED <<envVars, primaryVars, audioVars, flagVars, connVars, recvVars,
                 sendVars, loopSt, loopCur, bufVars, pending_callbacks, flushCount,
                 handed>>

\* translation_service.translate_with_gpt(...) is called: a synchronous
\* call inside the coroutine, so the loop's thread is inside it until it
\* returns.
TranslateStart(i) ==
  /\ LoopFree
  /\ tasks[i].pc = "translate"
  /\ loopCur' = i
  /\ tasks' = [tasks EXCEPT ![i].pc = "translating"]
  /\ UNCHANGED <<envVars, primaryVars, audioVars, flagVars, connVars, recvVars,
                 sendVars, loopSt, readyQ, bufVars, bridgeVars>>

\* What translate_with_gpt returns for a text: None for an empty one, else
\* a translation or one of its three messages.
TranslateResults(text) ==
  IF text = <<>> THEN {"None"}
  ELSE {"translated", "Translation error", "Translation error - please try again",
        "Translation service unavailable"}

\* if english_text and english_text != "Translation error": emit
EmitsResult(english) == english # "None" /\ english # "Translation error"

TranslateEnd(i) ==
  /\ loopCur = i
  /\ tasks[i].pc = "translating"
  /\ loopCur' = 0
  /\ tasks' = [tasks EXCEPT ![i].pc = "done"]
  /\ \E english \in TranslateResults(tasks[i].text) :
       events' = IF EmitsResult(english)
                   THEN Append(events, [type |-> "final", text |-> tasks[i].text,
                                        n |-> tasks[i].n])
                   ELSE events
  /\ UNCHANGED <<envVars, primaryVars, audioVars, flagVars, connVars, recvVars,
                 sendVars, loopSt, readyQ, bufVars, pending_callbacks, flushCount,
                 handed>>

\* -------------------------------------------------- threading.Timer threads
\* Timer.run: the interval is over and the timer was not cancelled.  The
\* interval (2.0 s or 4.0 s) outlasts the return of the add_text call that
\* started the timer.
TimerFire(t) ==
  /\ timers[t].st = "armed"
  /\ ~ (at.pc = "ret_none" /\ timer = t)
  /\ timers' = [timers EXCEPT ![t].st = "running", ![t].pc = "p_check"]
  /\ UNCHANGED <<envVars, primaryVars, audioVars, flagVars, connVars, recvVars,
                 sendVars, loopVars, current_sentences, partial_text,
                 context_history, timer, at, bridgeVars>>

\* _timeout_flush: result = self._process_sentences(), one statement at a time
TimerProcess(t) ==
  /\ timers[t].st = "running"
  /\ timers[t].pc \in ProcPcs
  /\ timers' = [timers EXCEPT ![t] = ProcessLocals(timers[t])]
  /\ partial_text' = ProcessPartial(timers[t])
  /\ context_history' = ProcessHistory(timers[t])
  /\ current_sentences' = ProcessSentences(timers[t])
  /\ flushCount' = ProcessCount(timers[t])
  /\ UNCHANGED <<envVars, primaryVars, audioVars, flagVars, connVars, recvVars,
                 sendVars, loopVars, timer, at, pending_callbacks, events, handed>>

\* if result and self.callback: self.callback(...)  -- sync_callback: with
\* the loop known, run_coroutine_threadsafe, which raises on a closed loop;
\* with no loop after the wait, the batch goes to pending_callbacks.
TimerCallback(t) ==
  /\ timers[t].st = "running"
  /\ timers[t].pc \in {"ret", "ret_none"}
  /\ timers' = [timers EXCEPT ![t].st = "done"]
  /\ IF timers[t].pc = "ret_none"
       THEN UNCHANGED <<tasks, readyQ, pending_callbacks, handed>>
       ELSE /\ handed' = Append(handed, timers[t].n)
            /\ IF loopSt = "unset"
                 THEN /\ pending_callbacks' = Append(pending_callbacks, timers[t])
                      /\ UNCHANGED <<tasks, readyQ>>
                 ELSE IF loopSt = "closed"
                        THEN UNCHANGED <<tasks, readyQ, pending_callbacks>>
                        ELSE /\ tasks' = Append(tasks,
                                   NewTask("ob", timers[t].text, timers[t].context,
                                           timers[t].n, 0))
                             /\ readyQ' = Append(readyQ, Len(tasks) + 1)
                             /\ UNCHANGED pending_callbacks
  /\ UNCHANGED <<envVars, primaryVars, audioVars, flagVars, connVars, recvVars,
                 sendVars, loopSt, loopCur, current_sentences, partial_text,
                 context_history, timer, at, events, flushCount>>

\* ------------------------------------------------- the audio inlet alone
\* Frames and the connection, no inbound traffic.
InletCfg == [frames |-> MaxFrames, msgs |-> 0, kinds |-> {}]

InletInit == InitWith(InletCfg)

InletNext ==
  \/ AddAudioRead \/ AddAudioAct
  \/ ThreadStart \/ ThreadPending
  \/ ConnToken \/ ConnHandshake \/ ConnRunning \/ ConnSettle
  \/ ConnFlushCheck \/ ConnFlushIter \/ ConnFlushClear \/ ConnSpawn
  \/ SendCheck \/ SendDone \/ SendWake

InletSpec == InletInit /\ [][InletNext]_vars

\* C1: frames are placed on audio_queue in their submission order.
PlacedInSubmissionOrder ==
  \A i, j \in 1..Len(placed) : i < j => placed[i] < placed[j]

\* C2: once the link is up and add_audio has returned, every submitted frame
\* has been placed on audio_queue and none is left in pending_audio.
NoFrameStranded ==
  (connPc = "gather" /\ mainPc = "idle") =>
     /\ pending_audio = <<>>
     /\ \A f \in 1..(nextFrame - 1) : f \in Range(placed)


\* --------------------------------------------------------- the whole room
\* Final fragments: an unterminated one and one of four sentences.
Fragments == {<<"a">>, <<"a", ".", " ", "a", ".", " ", "a", ".", " ", "a", ".">>}

FinalMsgs == {Msg(TRUE, t, TRUE, FALSE) : t \in Fragments}

AudioSteps == AddAudioRead \/ AddAudioAct

CloseSteps == CloseRoom \/ DisconnectReady \/ DisconnectWs \/ WsCloseTask

ConnSteps ==
  \/ ThreadStart \/ ThreadPending \/ ThreadClose
  \/ ConnToken \/ ConnHandshake \/ ConnRunning \/ ConnSettle
  \/ ConnFlushCheck \/ ConnSpawn \/ ConnFinish

FlushSteps == ConnFlushIter \/ ConnFlushClear

RecvSteps == RecvCheck \/ RecvMessage \/ RecvClosed \/ RemoteClose

SendSteps == SendCheck \/ SendWake

TaskSteps ==
  \/ OTStart \/ OBStart
  \/ \E i \in 1..Len(tasks) : AddTextEnter(i) \/ TranslateStart(i) \/ TranslateEnd(i)
  \/ AddTextCancel \/ AddTextMerge \/ AddTextSplit \/ AddTextRemain
  \/ AddTextDecide \/ AddTextProcess \/ AddTextReturn

TimerSteps ==
  \E t \in 1..Len(timers) : TimerFire(t) \/ TimerProcess(t) \/ TimerCallback(t)

\* The session without audio and without close_room.
SessionCfg == [frames |-> 0, msgs |-> MaxMsgs, kinds |-> FinalMsgs]

Init == InitWith(SessionCfg)

Next == ConnSteps \/ RecvSteps \/ SendSteps \/ TaskSteps \/ TimerSteps

Spec == Init /\ [][Next]_vars


\* The timer threads inside _process_sentences.
FlushingTimers == {t \in 1..Len(timers) : timers[t].st = "running" /\ timers[t].pc \in ProcPcs}

\* C3: a timer-triggered flush never runs inside _process_sentences while an
\* add_text call on the same buffer is in progress.
SingleThreadedBuffer == ~ (at.pc # "idle" /\ FlushingTimers # {})

\* The batch numbers of the provisional batch events, in emission order.
ProvisionalOrder ==
  LET IsProv(e) == e.type = "prov"
      provs == SelectSeq(events, IsProv)
  IN [i \in 1..Len(provs) |-> provs[i].n]

\* Nothing is left to run: the session thread has closed its loop and no
\* timer is pending or running.
SessionOver ==
  /\ loopSt = "closed"
  /\ \A t \in 1..Len(timers) : timers[t].st \in {"cancelled", "done"}

\* C4: every batch a timer-triggered flush handed to sync_callback has had
\* its batch event emitted by the time the session is over.
HandedBatchesEmitted ==
  SessionOver => \A n \in Range(handed) : n \in Range(ProvisionalOrder)

\* C5: the provisional batch events of a session are emitted in the order in
\* which the flushes occurred.
BatchesInFlushOrder ==
  \A i, j \in 1..Len(ProvisionalOrder) :
     i < j => ProvisionalOrder[i] < ProvisionalOrder[j]


\* ------------------------------------------------ the room with close_room
CloseNext == Next \/ CloseSteps

CloseSpec == Init /\ [][CloseNext]_vars

\* close_room has returned.
RoomClosed == ~ rooms /\ mainPc = "idle"

\* C7: once close_room has returned, no pending deferred-flush timer fires.
NoTimerFiresAfterClose ==
  [][RoomClosed =>
       \A t \in 1..Len(timers) :
          timers[t].st = "armed" => timers'[t].st # "running"]_vars

\* ---------------------------------------------------- the room with audio
AudioCfg == [frames |-> SessionFrames, msgs |-> MaxMsgs, kinds |-> FinalMsgs]

AudioInit == InitWith(AudioCfg)

AudioNext == Next \/ AudioSteps \/ FlushSteps \/ SendDone

AudioSpec == AudioInit /\ [][AudioNext]_vars

Translating == \E i \in 1..Len(tasks) : tasks[i].pc = "translating"

\* C8: while translate_with_gpt is in progress add_audio accepts a frame and
\* the send loop, if it has a frame to take, can take it.
AudioPathNotBlocked ==
  Translating =>
    /\ (mainPc = "idle" /\ rooms /\ nextFrame <= cfg.frames) => ENABLED AddAudioRead
    /\ (sendPc = "check" /\ is_running /\ ws /\ loopSt = "running"
          /\ audio_queue # <<>>) => ENABLED SendCheck

\* ------------------------------------------- the link with close_room, fair
LinkCfg == [frames |-> 1, msgs |-> 0, kinds |-> {}]

LinkInit == InitWith(LinkCfg)

LinkNext ==
  \/ ConnSteps \/ FlushSteps \/ AudioSteps \/ CloseSteps
  \/ RecvCheck \/ RecvClosed \/ RemoteClose
  \/ SendSteps \/ SendDone

\* Every thread keeps being scheduled: the session thread's coroutines, the
\* primary thread's handlers and tasks.  The remote endpoint and the caller
\* of close_room act when they choose.
LinkFairness ==
  /\ WF_vars(ConnSteps \/ FlushSteps)
  /\ WF_vars(RecvCheck \/ RecvClosed)
  /\ WF_vars(SendSteps \/ SendDone)
  /\ WF_vars(AddAudioAct \/ DisconnectReady \/ DisconnectWs \/ WsCloseTask)

LinkFairSpec == LinkInit /\ [][LinkNext]_vars /\ LinkFairness

\* C6: after close_room both loops exit and connect_websocket completes.
CloseEndsSession ==
  RoomClosed ~> (ConnReturned /\ recvPc \in {"none", "done"}
                   /\ sendPc \in {"none", "done"})

\* ---------------------------------------------------- the receive loop
\* Every shape of inbound message: with or without alternatives, the first
\* text empty, blank, plain or padded, final or not, with or without error.
MsgTexts == {<<>>, <<" ">>, <<"a">>, <<" ", "a", " ">>}

AllMsgs ==
  {Msg(TRUE, t, f, e) : t \in MsgTexts, f \in BOOLEAN, e \in BOOLEAN}
    \cup {Msg(FALSE, <<>>, f, e) : f \in BOOLEAN, e \in BOOLEAN}

RecvCfg == [frames |-> 0, msgs |-> MaxRecv, kinds |-> AllMsgs]

RecvInit == InitWith(RecvCfg)

RecvNext == ConnSteps \/ RecvSteps \/ SendSteps

RecvSpec == RecvInit /\ [][RecvNext]_vars

\* The texts the transcript callback was invoked with, in invocation order.
IsCallback(task) == task.kind = "ot"

CallbackTexts ==
  LET calls == SelectSeq(tasks, IsCallback) IN [i \in 1..Len(calls) |-> calls[i].text]

\* C9 as stated: one callback, with the message's text, per received message
\* whose first alternative's text is non-empty and whose final flag is set,
\* in receipt order.
CallbackPerNonEmptyFinal ==
  LET Wanted(m) == m.alt /\ m.text # <<>> /\ m.final
      wanted == SelectSeq(received, Wanted)
  IN CallbackTexts = [i \in 1..Len(wanted) |-> wanted[i].text]

\* C9 amended: one callback, with the stripped text, per received message
\* whose first alternative's text is non-blank and whose final flag is set,
\* in receipt order.
CallbackPerNonBlankFinal ==
  LET Wanted(m) == m.alt /\ m.final /\ \E k \in 1..Len(m.text) : m.text[k] # Blank
      wanted == SelectSeq(received, Wanted)
  IN CallbackTexts = [i \in 1..Len(wanted) |-> Strip(wanted[i].text)]

\* A padded final text, an interim one and a plain final one have been read,
\* and the callback has run for the first and the third.
CallbackWitness ==
  /\ Len(received) >= 3
  /\ received[1] = Msg(TRUE, <<" ", "a", " ">>, TRUE, FALSE)
  /\ received[2] = Msg(TRUE, <<"a">>, FALSE, FALSE)
  /\ received[3] = Msg(TRUE, <<"a">>, TRUE, FALSE)
  /\ CallbackTexts = <<<<"a">>, <<"a">>>>

\* C10: no callback is invoked for a message that is not final or that
\* carries an error field.
NoCallbackForInterimOrError ==
  \A i \in 1..Len(tasks) :
     tasks[i].kind = "ot" =>
        received[tasks[i].msg].final /\ ~ received[tasks[i].msg].error

\* ------------------------------------------------- the buffer taken alone
\* The state once the link is up: the loop runs connect_websocket, which
\* waits in gather, the receive loop waits in recv() and the send loop
\* sleeps.  No fragment has arrived yet.
LinkUpWith(c) ==
  /\ cfg = c
  /\ EnvInit
  /\ ClientConnected
  /\ SplitterIdle
  /\ mainPc = "idle" /\ aaFrame = 0 /\ nextFrame = 1
  /\ rooms = TRUE /\ closeTask = "none"
  /\ is_running = TRUE /\ connection_ready = TRUE
  /\ ws = TRUE /\ sock = "open"
  /\ pending_audio = <<>> /\ audio_queue = <<>>
  /\ connPc = "gather" /\ flushIdx = 0
  /\ recvPc = "recv" /\ sendPc = "sleep" /\ sendBuf = 0
  /\ sent = <<>> /\ placed = <<>> /\ received = <<>>
  /\ loopSt = "running" /\ readyQ = <<>> /\ loopCur = 0 /\ tasks = <<>>
  /\ current_sentences = <<>> /\ partial_text = <<>> /\ context_history = <<>>
  /\ timer = 0 /\ timers = <<>>
  /\ at = [pc |-> "idle"]
  /\ pending_callbacks = <<>> /\ events = <<>>
  /\ flushCount = 0 /\ handed = <<>>

\* sync_on_transcript(text) with any text, blank ones included: on_transcript
\* is scheduled on the session loop and hands its argument to add_text.  The
\* fragments of one speaker come seconds apart: the next is delivered once
\* the loop has started what was scheduled, add_text has returned for the
\* fragment before and a timer thread that was running has ended.  A timer
\* may still fire while the new call is running.
SyncOnTranscript ==
  /\ loopSt = "running"
  /\ readyQ = <<>>
  /\ Len(CallbackTexts) < cfg.msgs
  /\ \A i \in 1..Len(tasks) :
       tasks[i].kind = "ot" => tasks[i].pc \in {"translate", "done"}
  /\ \A t \in 1..Len(timers) : timers[t].st # "running"
  /\ \E m \in cfg.kinds :
       /\ tasks' = OnTranscriptCall(tasks, m.text, 0)
       /\ readyQ' = Append(readyQ, Len(tasks) + 1)
  /\ UNCHANGED <<envVars, primaryVars, audioVars, flagVars, connVars, recvVars,
                 sendVars, loopSt, loopCur, bufVars, bridgeVars>>

\* Fragments: blank, unterminated, unterminated with a syllable pair the
\* corrector rewrites, one sentence, four sentences.
OneSentence == <<"a", ".">>

FourSentences == <<"a", ".", " ", "a", ".", " ", "a", ".", " ", "a", ".">>

BufferTexts ==
  {<<" ">>, <<"a">>, <<"w">>, OneSentence, FourSentences}

BufferCfg ==
  [frames |-> 0, msgs |-> MaxCalls,
   kinds |-> {Msg(TRUE, t, TRUE, FALSE) : t \in BufferTexts}]

BufferInit == LinkUpWith(BufferCfg)

BufferNext ==
  \/ SyncOnTranscript \/ OTStart \/ OBStart
  \/ \E i \in 1..Len(tasks) : AddTextEnter(i)
  \/ AddTextCancel \/ AddTextMerge \/ AddTextSplit \/ AddTextRemain
  \/ AddTextDecide \/ AddTextProcess \/ AddTextReturn
  \/ TimerSteps

BufferSpec == BufferInit /\ [][BufferNext]_vars

ArmedTimers == {t \in 1..Len(timers) : timers[t].st = "armed"}

\* C11: a non-blank add_text call returns a batch exactly when at least
\* TARGET_SENTENCES sentences were accumulated after segmenting its fragment,
\* and a call that returns a batch leaves no timer armed.
InlineFlushAtTarget ==
  /\ at.pc = "ret" => at.cnt >= TARGET_SENTENCES /\ ArmedTimers = {}
  /\ (at.pc = "ret_none" /\ at.text # <<>>) => at.cnt < TARGET_SENTENCES

\* A call of _process_sentences completes a flush in this step: its last
\* statement, the clear, is executed.
FlushCompletes ==
  \/ at.pc = "p_clear" /\ at'.pc = "ret"
  \/ \E t \in 1..Len(timers) : timers[t].pc = "p_clear" /\ timers'[t].pc = "ret"

\* C12: right after a flush, inline or timer-triggered, current_sentences and
\* partial_text are empty and context_history is still there.
FlushLeavesBufferEmpty ==
  [][FlushCompletes =>
       /\ current_sentences' = <<>> /\ partial_text' = <<>>
       /\ context_history' = context_history /\ context_history' # <<>>]_vars

\* C13: when a non-blank add_text call returns without a batch, exactly one
\* timer is armed: the long one if a complete sentence is outstanding, the
\* short one if only partial_text is.
OneTimerAfterIngest ==
  (at.pc = "ret_none" /\ at.text # <<>>) =>
     /\ timer # 0 /\ ArmedTimers = {timer}
     /\ timers[timer].kind =
          IF current_sentences # <<>> THEN "sentence" ELSE "partial"
     /\ current_sentences # <<>> \/ partial_text # <<>>

NoTerminator(text) == text # <<>> /\ SplitIntoSentences(text).sentences = <<>>

\* The stripped argument of the add_text call in progress.
CurrentFragment == Strip(tasks[loopCur].text)

\* The non-blank fragment ingested last.
LastIngested ==
  LET done == {i \in 1..Len(tasks) :
                 /\ tasks[i].kind = "ot" /\ Strip(tasks[i].text) # <<>>
                 /\ tasks[i].pc \in {"translate", "done"}}
      last == CHOOSE i \in done : \A j \in done : j <= i
  IN Strip(tasks[last].text)

\* The threshold test of a call that found the buffer empty and brought an
\* unterminated fragment: no batch, the short timer armed, the fragment kept
\* as partial_text.
FreshPartialArms ==
  (at.pc = "decide" /\ at'.pc # "decide" /\ at.fresh /\ NoTerminator(CurrentFragment)) =>
     /\ at'.pc = "ret_none"
     /\ timer' # 0 /\ timers'[timer'].st = "armed" /\ timers'[timer'].kind = "partial"
     /\ partial_text' = CurrentFragment /\ current_sentences' = <<>>

\* The short timer started by a call on an empty buffer has fired and ended
\* with no fragment ingested since.
ShortFlushed(t) ==
  /\ timers[t].fresh /\ timers[t].kind = "partial" /\ timers[t].st = "done"
  /\ timer = t /\ at.pc = "idle"

\* The flush of timer t took the last fragment alone, handed the callback
\* one batch of the given content, and left the buffer empty.
ShortFlushBatch(t, content) ==
  /\ timers[t].pc = "ret"
  /\ timers[t].stp = <<LastIngested>>
  /\ timers[t].text = content
  /\ Cardinality({i \in 1..Len(tasks) :
                    /\ tasks[i].kind = "ob" /\ tasks[i].n = timers[t].n
                    /\ tasks[i].text = content}) = 1
  /\ Cardinality({i \in 1..Len(handed) : handed[i] = timers[t].n}) = 1
  /\ current_sentences = <<>> /\ partial_text = <<>>

\* C15: an unterminated fragment ingested into an empty buffer returns no
\* batch and arms the short timer; when that timer has fired with no fragment
\* ingested since, one batch holding the partial text was handed to the
\* callback and the buffer is empty.
ShortTimerFlushesPartial ==
  /\ [][FreshPartialArms]_vars
  /\ [](\A t \in 1..Len(timers) : ShortFlushed(t) => ShortFlushBatch(t, LastIngested))

\* --------------------------------------------- the buffer over many flushes
\* Fragments that each end in a flush: an unterminated one, flushed by its
\* timer, and four sentences, flushed inline.
HistoryCfg ==
  [frames |-> 0, msgs |-> MaxFlushes,
   kinds |-> {Msg(TRUE, t, TRUE, FALSE) : t \in {<<"a">>, <<"w">>, FourSentences}}]

HistoryInit == LinkUpWith(HistoryCfg)

\* A timer whose interval ends while no call of add_text is in progress or
\* due: over a long session the flushes follow one another.
TimerFireBetweenCalls(t) ==
  /\ at.pc = "idle"
  /\ \A i \in 1..Len(tasks) :
       tasks[i].kind = "ot" => tasks[i].pc \in {"translate", "done"}
  /\ TimerFire(t)

HistoryNext ==
  \/ SyncOnTranscript \/ OTStart \/ OBStart
  \/ \E i \in 1..Len(tasks) : AddTextEnter(i)
  \/ AddTextCancel \/ AddTextMerge \/ AddTextSplit \/ AddTextRemain
  \/ AddTextDecide \/ AddTextProcess \/ AddTextReturn
  \/ \E t \in 1..Len(timers) :
       TimerFireBetweenCalls(t) \/ TimerProcess(t) \/ TimerCallback(t)

HistorySpec == HistoryInit /\ [][HistoryNext]_vars

\* The batches produced so far, as records of their number, text and context.
Batches ==
  {[n |-> timers[t].n, text |-> timers[t].text, context |-> timers[t].context] :
     t \in {u \in 1..Len(timers) : timers[u].n > 0}}
  \cup {[n |-> tasks[i].n, text |-> tasks[i].text, context |-> tasks[i].context] :
          i \in {j \in 1..Len(tasks) : tasks[j].kind = "ot" /\ tasks[j].n > 0}}
  \cup (IF at.pc \in {"p_clear", "ret"}
          THEN {[n |-> at.n, text |-> at.text, context |-> at.context]}
          ELSE {})

Batch(k) == CHOOSE b \in Batches : b.n = k

\* The texts of the flushes so far, in flush order.
FlushTexts == [k \in 1..flushCount |-> Batch(k).text]

\* C16: after N flushes context_history holds the texts of the last
\* min(N, 5) flushes, in flush order.
HistoryIsLastFive == context_history = LastN(FlushTexts, HISTORY_CAP)

\* Six flushes, the first one timer-triggered and its text evicted: the
\* history holds flushes 2 to 6.
SixFlushesWitness ==
  /\ flushCount = 6 /\ at.pc = "idle"
  /\ FlushTexts[1] = <<"a">> /\ FlushTexts[2] = FourSentences
  /\ FlushTexts[6] = <<"a">>
  /\ context_history = SubSeq(FlushTexts, 2, 6)

\* C17: the context of every batch is the space-joined texts of up to three
\* batches flushed immediately before it, oldest first; the first batch of a
\* session has an empty context.
ContextIsLastThree ==
  \A b \in Batches :
     b.context = Join(LastN(SubSeq(FlushTexts, 1, b.n - 1), CONTEXT_WINDOW))

\* ------------------------------------------- the buffer and Korean endings
\* Fragments whose words end in a sentence ending ("d") or start with a
\* continuation particle ("n").
EndingWord == <<"a", "d">>
ParticleWord == <<"n", "a">>
TwoEndings == <<"a", "d", " ", "a", "d">>
SplitTexts == {<<"a">>, EndingWord, ParticleWord, TwoEndings}

SplitCfg ==
  [frames |-> 0, msgs |-> MaxCalls,
   kinds |-> {Msg(TRUE, t, TRUE, FALSE) : t \in SplitTexts}]

SplitInit == LinkUpWith(SplitCfg)

SplitSpec == SplitInit /\ [][BufferNext]_vars

\* The fragments ingested so far, in order of ingestion.
Ingested ==
  LET done == SelectSeq(tasks, LAMBDA k : k.kind = "ot" /\ k.pc \in {"translate", "done"})
  IN [i \in 1..Len(done) |-> Strip(done[i].text)]

\* No flush has begun since the session started: no inline flush and no
\* timer that fired.
NoFlushYet ==
  /\ flushCount = 0 /\ at.pc = "idle"
  /\ \A t \in 1..Len(timers) : timers[t].st \in {"armed", "cancelled"}

\* current_sentences followed by partial_text.
BufferContent ==
  current_sentences \o (IF partial_text # <<>> THEN <<partial_text>> ELSE <<>>)

\* What one call of add_text on an empty buffer leaves for the given text.
SingleCallContent(text) ==
  LET r == SplitIntoSentences(text)
  IN r.sentences \o (IF r.remaining # <<>> THEN <<r.remaining>> ELSE <<>>)

\* C18: fragments ingested one by one with no flush in between leave the
\* same sentences and partial text as one call on their concatenation.
OneByOneIsSingleCall ==
  (NoFlushYet /\ Ingested # <<>>) => BufferContent = SingleCallContent(Join(Ingested))

\* ------------------------------------------------- flushes that find nothing
\* What a flush can touch beyond the locals of the thread running it.
FlushFrame ==
  <<current_sentences, partial_text, context_history, timer, flushCount,
    tasks, readyQ, pending_callbacks, handed, events>>

\* Neither a sentence nor a partial text is buffered.
NothingBuffered == current_sentences = <<>> /\ partial_text = <<>>

\* C19: a flush that finds current_sentences and partial_text both empty
\* returns no batch and changes nothing, and _timeout_flush then ends without
\* invoking the callback; so does a timer firing after another flush has
\* emptied the buffer.
EmptyFlushIsNoOp ==
  [][/\ \A t \in 1..Len(timers) :
          /\ (/\ timers[t].st = "running" /\ timers[t].pc = "p_check"
              /\ NothingBuffered /\ timers'[t] # timers[t]) =>
                /\ timers'[t] = [timers[t] EXCEPT !.pc = "ret_none"]
                /\ UNCHANGED FlushFrame
          /\ (/\ timers[t].st = "running" /\ timers[t].pc = "ret_none"
              /\ timers'[t] # timers[t]) =>
                /\ timers'[t] = [timers[t] EXCEPT !.st = "done"]
                /\ timers[t].n = 0 /\ timers[t].text = <<>>
                /\ UNCHANGED FlushFrame
     /\ (at.pc = "p_check" /\ NothingBuffered /\ at' # at) =>
          /\ at' = [at EXCEPT !.pc = "ret_none"]
          /\ UNCHANGED FlushFrame]_vars

\* A timer fired after another flush had emptied the buffer, and ended.
EmptyTimerFlush ==
  \E t \in 1..Len(timers) :
     /\ timers[t].st = "done" /\ timers[t].pc = "ret_none"
     /\ flushCount >= 1 /\ context_history # <<>>

\* ------------------------------------------------------ blank fragments
\* What add_text can touch: the buffer, its history and its timers.
AddTextFrame ==
  <<current_sentences, partial_text, context_history, timer, timers,
    flushCount, handed, pending_callbacks>>

IsBlank(text) == Strip(text) = <<>>

\* The call of add_text in progress was given a blank text.
BlankCall == loopCur # 0 /\ at.pc # "idle" /\ IsBlank(tasks[loopCur].text)

\* C20: add_text given an empty or whitespace-only text returns no batch and
\* leaves current_sentences, partial_text, context_history and the pending
\* timer as they were.
BlankTextIgnored ==
  [][/\ \A i \in 1..Len(tasks) :
          (/\ tasks[i].kind = "ot" /\ tasks[i].pc = "add" /\ IsBlank(tasks[i].text)
           /\ tasks'[i].pc = "in_add_text") =>
             /\ at'.pc = "ret_none"
             /\ UNCHANGED AddTextFrame
     /\ (BlankCall /\ at' # at) =>
          /\ at.pc = "ret_none" /\ at'.pc = "idle"
          /\ tasks'[loopCur].pc = "done" /\ tasks'[loopCur].n = 0
          /\ events' = events
          /\ UNCHANGED AddTextFrame]_vars

\* A blank call has been answered while a timer is pending for a partial text.
BlankCallKeepsTimer ==
  /\ BlankCall /\ at.pc = "ret_none"
  /\ timer # 0 /\ timers[timer].st = "armed"
  /\ partial_text # <<>>

\* ------------------------------------------------- the link that never opens
\* C21: when get_token fails, no handshake is attempted, connection_ready
\* never becomes true, and no frame given to add_audio, before or after the
\* failure, is placed on audio_queue or sent.
NoTokenNoLink ==
  /\ [](connPc = "no_token" =>
          /\ ~ connection_ready /\ ~ ws /\ sock = "none"
          /\ placed = <<>> /\ audio_queue = <<>> /\ sent = <<>>
          /\ \A f \in 1..(nextFrame - 1) :
               f \in Range(pending_audio) \/ (mainPc = "aa_pend" /\ aaFrame = f))
  /\ [][connPc = "no_token" => connPc' = "no_token"]_vars

\* get_token has failed and three frames have been submitted: all are held
\* in pending_audio.
FramesAroundTokenFailure ==
  /\ connPc = "no_token" /\ mainPc = "idle"
  /\ pending_audio = <<1, 2, 3>>

\* --------------------------------------------------- the end of the link
\* The event types of a terminal notification.  run_async_websocket and
\* connect_websocket emit none: the only events are 'stt', the provisional
\* batch event and the resolved batch event.
TerminalTypes == {"speaker_disconnected", "room_closed"}

TerminalNotified == \E i \in 1..Len(events) : events[i].type \in TerminalTypes

\* C22: once connect_websocket has returned (no token, failed handshake, read
\* or write error, socket closed by the remote endpoint), a terminal
\* notification is eventually emitted.
LinkFailureNotified == ConnReturned ~> TerminalNotified

\* ------------------------------------------------ the batches' two events
\* The buffer with the link up, and the translation of every batch.
BatchNext ==
  \/ BufferNext
  \/ \E i \in 1..Len(tasks) : TranslateStart(i) \/ TranslateEnd(i)

BatchCfg == [frames |-> 0, msgs |-> MaxMsgs, kinds |-> FinalMsgs]

BatchInit == LinkUpWith(BatchCfg)

\* The session loop keeps running its coroutines and every timer thread
\* runs to its end; fragments arrive when the speaker chooses.
BatchFairness ==
  /\ WF_vars(OTStart \/ OBStart)
  /\ WF_vars(\E i \in 1..Len(tasks) :
               AddTextEnter(i) \/ TranslateStart(i) \/ TranslateEnd(i))
  /\ WF_vars(AddTextCancel \/ AddTextMerge \/ AddTextSplit \/ AddTextRemain
               \/ AddTextDecide \/ AddTextProcess \/ AddTextReturn)
  /\ WF_vars(TimerSteps)

BatchFairSpec == BatchInit /\ [][BatchNext]_vars /\ BatchFairness

\* The batch ids a session of MaxMsgs fragments can mint.
BatchIds == 1..(2 * MaxMsgs)

EventsOf(type, n) == {i \in 1..Len(events) : events[i].type = type /\ events[i].n = n}

\* C23: the provisional event of every batch is eventually followed by
\* exactly one event of the same batch carrying the translation or a failure
\* marker.
EveryBatchResolved ==
  \A n \in BatchIds :
     /\ (EventsOf("prov", n) # {}) ~> (Cardinality(EventsOf("final", n)) = 1)
     /\ [](Cardinality(EventsOf("final", n)) <= 1)

\* disconnect() has executed self.connection_ready = False.
DisconnectCalled == mainPc = "disc_ws" \/ ~ rooms

\* The receive or the send loop has ended: its read or write failed, or it
\* found is_running cleared.
LoopEnded == recvPc = "done" \/ sendPc = "done"

\* C24: connection_ready is true only between a successful handshake and
\* the socket's close or error: never once the socket has closed, a read or
\* write has failed, or disconnect() has been called.
ReadyOnlyWhileLinkUp ==
  connection_ready => (sock = "open" /\ ~ LoopEnded /\ ~ DisconnectCalled)

\* ------------------------------------------------------ no reconnection
\* The positions of connect_websocket in program order.
ConnOrder ==
  [idle |-> 0, token |-> 1, handshake |-> 2, running |-> 3, settle |-> 4,
   flushCheck |-> 5, flushIter |-> 6, flushClear |-> 7, spawn |-> 8,
   gather |-> 9, no_token |-> 10, refused |-> 10, done |-> 10]

\* C25: connect_websocket runs once and forward only, so at most one
\* handshake is attempted; once it has returned it is never entered again,
\* the socket is not opened again and no frame is sent.
NoReconnection ==
  [][/\ connPc' # connPc => ConnOrder[connPc'] > ConnOrder[connPc]
     /\ ConnReturned =>
          /\ connPc' = connPc
          /\ sent' = sent
          /\ sock' # "open"
          /\ loopSt \in {"stopped", "closed"} /\ loopSt' \in {"stopped", "closed"}]_vars

\* The connection has ended and the thread is over; the frame submitted
\* since is held in pending_audio and was never sent.
FrameAfterTheEnd ==
  /\ connPc = "done" /\ loopSt = "closed"
  /\ mainPc = "idle" /\ pending_audio = <<1>>
  /\ placed = <<>> /\ sent = <<>>

\* ------------------------------------------------ the rooms and their sessions
\* What the room manager's steps leave alone: the pipeline of the session
\* followed in detail, and the translation cache.
pipelineVars ==
  <<cfg, tokenVars, segVars, primaryVars, audioVars, flagVars, connVars, recvVars, sendVars,
    loopVars, bufVars, bridgeVars>>

\* create_room_from_nodejs with room id r: create_room builds a Room and a
\* client and stores them under r, whatever is stored there; a buffer is
\* built and a session thread started.
CreateRoom(r) ==
  /\ Len(sessions) < MaxSessions
  /\ sessions' = Append(sessions, [room |-> r, st |-> "live"])
  /\ room_index' = [room_index EXCEPT ![r] = Len(sessions) + 1]
  /\ UNCHANGED <<pipelineVars, cacheVars>>

\* close_room(r): the session stored under r is disconnected and the entry
\* deleted; an unknown id is refused.
CloseRoomOf(r) ==
  /\ room_index[r] # 0
  /\ sessions' = [sessions EXCEPT ![room_index[r]].st =
                    IF @ = "live" THEN "closing" ELSE @]
  /\ room_index' = [room_index EXCEPT ![r] = 0]
  /\ UNCHANGED <<pipelineVars, cacheVars>>

\* The thread of session i ends: its connect_websocket has returned.
SessionEnds(i) ==
  /\ sessions[i].st \in {"live", "closing"}
  /\ sessions' = [sessions EXCEPT ![i].st = "ended"]
  /\ UNCHANGED <<pipelineVars, cacheVars, room_index>>

RegistryInit == InitWith(SessionCfg)

RegistryNext ==
  \/ \E r \in RoomIds : CreateRoom(r) \/ CloseRoomOf(r)
  \/ \E i \in 1..Len(sessions) : SessionEnds(i)

RegistrySpec == RegistryInit /\ [][RegistryNext]_vars

\* The sessions of room id r whose client, thread and buffer are in use:
\* started, not closed by close_room and not ended.
LiveSessions(r) == {i \in 1..Len(sessions) : sessions[i].room = r /\ sessions[i].st = "live"}

\* C26: at most one live session exists per room id.
OneLiveSessionPerRoom == \A r \in RoomIds : Cardinality(LiveSessions(r)) <= 1

-----------------------------------------------------------------------------
\* C27 (holding queue).  sync_callback runs on a timer thread of the buffer,
\* and a timer is armed only by add_text, which on_transcript calls on the
\* session loop: every call of sync_callback therefore starts after
\* run_async_websocket has set websocket_loop (websocket.py line 133), takes
\* the branch of line 102, and pending_callbacks is never appended to.  The
\* replay of lines 136-139 always finds the list empty.
HoldingQueueUnused == pending_callbacks = <<>>

\* ------------------------------------------------- the translation cache
\* Texts the threads translate: 0 is the empty text, 1 the text stored first
\* in a cache that is not empty, the others are not in the cache at the start.
CacheKeys == {0, 1, MAX_CACHE_SIZE + 1, MAX_CACHE_SIZE + 2}

\* Entries in the cache at the start: none, one short of the capacity, the
\* capacity.
CacheFills == {0, MAX_CACHE_SIZE - 1, MAX_CACHE_SIZE}

\* dict.pop(k) / del on the insertion-ordered dict
Without(cache, k) == SelectSeq(cache, LAMBDA x : x # k)

InCache(k) == \E i \in 1..Len(translation_cache) : translation_cache[i] = k

\* The thread of session t leaves translate_with_gpt (a return or an
\* exception).
XlReturn(t) == xl' = [xl EXCEPT ![t].pc = "idle"]

\* on_buffered_transcript of session t calls translate_with_gpt(k, ...):
\* `if not korean_text: return None`, else on to the cache lookup.
XlCall(t, k) ==
  /\ t <= Len(sessions)
  /\ xl[t].pc = "idle"
  /\ xl[t].n < MaxTranslations
  /\ xl' = [xl EXCEPT ![t].pc = IF k = 0 THEN "idle" ELSE "lookup",
                      ![t].key = k, ![t].n = @ + 1]
  /\ UNCHANGED <<pipelineVars, registryVars, translation_cache>>

\* if cache_key in self.translation_cache
XlLookup(t) ==
  /\ xl[t].pc = "lookup"
  /\ xl' = [xl EXCEPT ![t].pc = IF InCache(xl[t].key) THEN "hit" ELSE "api"]
  /\ UNCHANGED <<pipelineVars, registryVars, translation_cache>>

\* return self.translation_cache[cache_key]: the stored value, or KeyError
\* out of translate_with_gpt when the key has been popped since the test.
XlHit(t) ==
  /\ xl[t].pc = "hit"
  /\ XlReturn(t)
  /\ UNCHANGED <<pipelineVars, registryVars, translation_cache>>

\* The request: no client, an exception or Korean in the answer end the
\* call with a message; a translation goes on to _add_to_cache.
XlApi(t) ==
  /\ xl[t].pc = "api"
  /\ \E ok \in BOOLEAN : xl' = [xl EXCEPT ![t].pc = IF ok THEN "size" ELSE "idle"]
  /\ UNCHANGED <<pipelineVars, registryVars, translation_cache>>

\* if len(self.translation_cache) >= self.max_cache_size
XlSize(t) ==
  /\ xl[t].pc = "size"
  /\ xl' = [xl EXCEPT ![t].pc = IF Len(translation_cache) >= MAX_CACHE_SIZE
                                   THEN "iter" ELSE "store"]
  /\ UNCHANGED <<pipelineVars, registryVars, translation_cache>>

\* iter(self.translation_cache): the iterator notes the size of the dict
XlIter(t) ==
  /\ xl[t].pc = "iter"
  /\ xl' = [xl EXCEPT ![t].pc = "next", ![t].seen = Len(translation_cache)]
  /\ UNCHANGED <<pipelineVars, registryVars, translation_cache>>

\* next(...): the first key of the dict; RuntimeError when the size has
\* changed since iter(), StopIteration on an empty dict, both caught by the
\* except of translate_with_gpt ("Translation error").
XlNextKey(t) ==
  /\ xl[t].pc = "next"
  /\ IF Len(translation_cache) # xl[t].seen \/ translation_cache = <<>>
       THEN XlReturn(t)
       ELSE xl' = [xl EXCEPT ![t].pc = "pop", ![t].victim = Head(translation_cache)]
  /\ UNCHANGED <<pipelineVars, registryVars, translation_cache>>

\* self.translation_cache.pop(key): KeyError, caught as above, when the key
\* is no longer there.
XlPop(t) ==
  /\ xl[t].pc = "pop"
  /\ IF InCache(xl[t].victim)
       THEN /\ translation_cache' = Without(translation_cache, xl[t].victim)
            /\ xl' = [xl EXCEPT ![t].pc = "store"]
       ELSE /\ XlReturn(t)
            /\ UNCHANGED translation_cache
  /\ UNCHANGED <<pipelineVars, registryVars>>

\* self.translation_cache[key] = value: a new key goes last, a key already
\* there keeps its place.
XlStore(t) ==
  /\ xl[t].pc = "store"
  /\ translation_cache' = IF InCache(xl[t].key) THEN translation_cache
                          ELSE Append(translation_cache, xl[t].key)
  /\ XlReturn(t)
  /\ UNCHANGED <<pipelineVars, registryVars>>

CacheInit ==
  /\ cfg = SessionCfg /\ PipelineInit /\ RegistryStart /\ SplitterIdle
  /\ \E fill \in CacheFills : CacheStart(fill)

CacheNext ==
  \/ \E r \in RoomIds : CreateRoom(r)
  \/ \E t \in Translators, k \in CacheKeys : XlCall(t, k)
  \/ \E t \in Translators :
       \/ XlLookup(t) \/ XlHit(t) \/ XlApi(t) \/ XlSize(t)
       \/ XlIter(t) \/ XlNextKey(t) \/ XlPop(t) \/ XlStore(t)

CacheSpec == CacheInit /\ [][CacheNext]_vars

\* A step of the cache in oldest-first order: nothing changes, or the
\* oldest entry leaves, or a key that was absent arrives last.
OldestFirstStep ==
  \/ translation_cache' = translation_cache
  \/ translation_cache # <<>> /\ translation_cache' = Tail(translation_cache)
  \/ \E k \in CacheKeys :
       ~ InCache(k) /\ translation_cache' = Append(translation_cache, k)

\* C28: the cache never holds more than MAX_CACHE_SIZE entries, whatever
\* the threads of the sessions do, and it is kept oldest-first: an entry
\* that leaves is the oldest one, and a hit changes nothing.
CacheBoundedOldestFirst ==
  /\ [](Len(translation_cache) <= MAX_CACHE_SIZE)
  /\ [][OldestFirstStep]_vars
  /\ [][\A t \in Translators :
          (xl[t].pc = "hit" /\ xl'[t].pc = "idle") =>
             translation_cache' = translation_cache]_vars

\* ------------------------------------------- the transcript-completed events
\* The texts of the 'stt' events, in emission order.
SttTexts ==
  LET IsStt(e) == e.type = "stt"
      stts == SelectSeq(events, IsStt)
  IN [i \in 1..Len(stts) |-> stts[i].text]

\* The fragments whose on_transcript coroutine has started, in the order in
\* which the callback received them.
StartedFragments ==
  LET Started(task) == task.kind = "ot" /\ task.pc # "queued"
      started == SelectSeq(tasks, Started)
  IN [i \in 1..Len(started) |-> Strip(received[started[i].msg].text)]

\* The place of task i among the calls of the transcript callback.
CallNumber(i) == Cardinality({j \in 1..i : tasks[j].kind = "ot"})

\* Every thread of the session keeps being scheduled.
SessionFairness ==
  /\ WF_vars(ConnSteps) /\ WF_vars(RecvCheck \/ RecvClosed) /\ WF_vars(SendSteps)
  /\ WF_vars(TaskSteps) /\ WF_vars(TimerSteps)

SessionFairSpec == Init /\ [][Next]_vars /\ SessionFairness

\* C29: every fragment passed to the transcript callback gets one 'stt' event
\* with its text and no second one, and the event is there when add_text is
\* entered with the fragment.
OneSttPerFragment ==
  /\ [](SttTexts = StartedFragments)
  /\ [][\A i \in 1..Len(tasks) :
          (tasks[i].kind = "ot" /\ tasks[i].pc = "add" /\ tasks'[i].pc # "add") =>
             /\ Len(SttTexts) >= CallNumber(i)
             /\ SttTexts[CallNumber(i)] = Strip(received[tasks[i].msg].text)]_vars
  /\ \A n \in 1..MaxMsgs : (Len(CallbackTexts) >= n) ~> (Len(SttTexts) >= n)

\* Both fragments of a session have been announced and ingested.
TwoFragmentsAnnounced ==
  /\ Len(CallbackTexts) = 2 /\ Len(SttTexts) = 2
  /\ \A i \in 1..Len(tasks) : tasks[i].kind = "ot" => tasks[i].pc = "done"

\* ------------------------------------------------------ text conservation
\* The arguments of the add_text calls that have returned, in call order.
IngestedFragments ==
  LET Returned(k) == k.kind = "ot" /\ k.pc \in {"translate", "translating", "done"}
      done == SelectSeq(tasks, Returned)
  IN [i \in 1..Len(done) |-> done[i].frag]

\* No add_text call and no timer thread is at work.
BufferAtRest ==
  /\ at.pc = "idle"
  /\ \A t \in 1..Len(timers) : timers[t].st # "running"

\* The tokens of a sequence of texts, in order, spelt as the batches spell
\* them (after the corrector's rewrites).
TokensOf(texts) == Split(FixText(Join(texts), <<>>))

\* C30: whenever the buffer is at rest, the tokens of the fragments ingested
\* so far are, in order and once each, the tokens of the batches flushed so
\* far followed by those of the sentences and partial text still buffered.
TextConserved ==
  BufferAtRest => TokensOf(IngestedFragments) = TokensOf(FlushTexts \o BufferContent)

\* ------------------------------------------------- the order of ingestion
\* C31: add_text is entered for the fragments of a session in the order in
\* which they were received: when it is entered for one, it has been entered
\* for every fragment received earlier.
IngestedInReceiptOrder ==
  [][\A i \in 1..Len(tasks) :
       (tasks[i].kind = "ot" /\ tasks[i].pc = "add" /\ tasks'[i].pc = "in_add_text") =>
          \A j \in 1..(i - 1) :
             tasks[j].kind = "ot" => tasks[j].pc \notin {"queued", "add"}]_vars

\* ------------------------------------------------- one event for each flush
\* The provisional batch events that carry flush n.
EventsOfFlush(n) == {k \in 1..Len(events) : events[k].type = "prov" /\ events[k].n = n}

\* The flushes whose batch add_text returned to on_transcript.
InlineFlushes ==
  {tasks[i].n : i \in {j \in 1..Len(tasks) : tasks[j].kind = "ot" /\ tasks[j].n > 0}}

\* The flushes whose batch _timeout_flush passed to the callback.
CallbackFlushes == Range(handed)

\* C32: no flush has more than one batch event; a batch that add_text
\* returned is not passed to the callback, a batch passed to the callback is
\* passed once and was not returned by add_text.
OneEventPerFlush ==
  /\ \A n \in 1..flushCount : Cardinality(EventsOfFlush(n)) <= 1
  /\ InlineFlushes \cap CallbackFlushes = {}
  /\ \A i, j \in 1..Len(handed) : handed[i] = handed[j] => i = j
  /\ \A i \in 1..Len(tasks) :
       tasks[i].kind = "ob" =>
          /\ tasks[i].n \in CallbackFlushes
          /\ \A j \in 1..Len(tasks) : (tasks[j].kind = "ob" /\ tasks[j].n = tasks[i].n) => i = j

\* An inline flush and a timer flush of one session, each with its event.
InlineAndTimerFlush ==
  /\ \E n \in InlineFlushes : Cardinality(EventsOfFlush(n)) = 1
  /\ \E n \in CallbackFlushes : Cardinality(EventsOfFlush(n)) = 1

\* ---------------------------------------------------- the latency bound
\* How often token x occurs in a sequence of tokens.
Occurrences(tokens, x) == Cardinality({i \in 1..Len(tokens) : tokens[i] = x})

\* Every token of the first k ingested fragments is in the batches flushed
\* so far, as often as it was ingested.
FlushedUpTo(k) ==
  LET want == TokensOf(SubSeq(IngestedFragments, 1, k))
      have == TokensOf(FlushTexts)
  IN \A x \in Range(want) : Occurrences(have, x) >= Occurrences(want, x)

\* C33: whenever add_text returns from a fragment leaving a sentence or
\* partial text buffered a timer is pending, and the text of every ingested
\* fragment is eventually in a flushed batch, whether or not more input
\* arrives.
BufferedTextIsFlushed ==
  /\ []((at.pc = "ret_none" /\ at.text # <<>> /\ ~ NothingBuffered) => ArmedTimers # {})
  /\ \A k \in 1..MaxMsgs :
       (Len(IngestedFragments) >= k) ~> (Len(IngestedFragments) >= k /\ FlushedUpTo(k))

\* ------------------------------------------------- the size of a batch
\* The complete sentences of a batch's text.
SentencesOf(b) == SplitIntoSentences(b.text).sentences

\* C34: no batch holds more than MAX_SENTENCES complete sentences.
BatchWithinMax == \A b \in Batches : Len(SentencesOf(b)) <= MAX_SENTENCES

\* ------------------------------------------------- the end of the two loops
\* C35: once the send loop or the receive loop has exited, the other exits
\* too and connect_websocket completes with connection_ready false.
LoopExitEndsLink ==
  LoopEnded ~> (recvPc = "done" /\ sendPc = "done" /\ connPc = "done"
                  /\ ~ connection_ready)

\* ------------------------------------------------------- the send loop
\* The audio inlet with a link that the remote endpoint may end.
SendNext ==
  \/ InletNext
  \/ RecvCheck \/ RecvClosed \/ RemoteClose
  \/ ConnFinish \/ ThreadClose

\* The session thread and the primary thread keep being scheduled; the
\* remote endpoint and the sender of frames act when they choose.
SendFairness ==
  /\ WF_vars(ThreadStart \/ ThreadPending \/ ThreadClose)
  /\ WF_vars(ConnToken \/ ConnHandshake \/ ConnRunning \/ ConnSettle \/ ConnFlushCheck
               \/ ConnFlushIter \/ ConnFlushClear \/ ConnSpawn \/ ConnFinish)
  /\ WF_vars(RecvCheck \/ RecvClosed)
  /\ WF_vars(SendCheck \/ SendDone \/ SendWake)
  /\ WF_vars(AddAudioAct)

SendFairSpec == InletInit /\ [][SendNext]_vars /\ SendFairness

IsPrefix(s, t) == Len(s) <= Len(t) /\ SubSeq(t, 1, Len(s)) = s

\* The link is no longer up: the socket is closed or a loop has cleared
\* is_running.
LinkDown == sock # "open" \/ ~ is_running

\* C36: the frames sent are, in order and once each, the first of the frames
\* put on audio_queue, and a frame put on the queue is eventually sent unless
\* the link goes down.
SentInQueueOrder ==
  /\ [](IsPrefix(sent, placed))
  /\ \A f \in 1..MaxFrames :
       (f \in Range(placed)) ~> (f \in Range(sent) \/ LinkDown)

\* Every frame has been sent, in the order of the queue, and the link is up.
AllFramesSent ==
  /\ Len(sent) = MaxFrames /\ sent = placed
  /\ sock = "open" /\ is_running

\* ------------------------------------------------ get_token taken alone
\* How many days the clock covers, and how many seconds past a whole number
\* of token lifetimes it is read.
MaxDays == 2
MaxSkew == 2

\* How many requests the client makes to the endpoint.
MaxPosts == 3

\* The instants at which the clock is read.
Instants == {d * TOKEN_TTL + e : d \in 0..MaxDays, e \in 0..MaxSkew}

\* Time passes.
Tick ==
  /\ \E t \in Instants : t > now /\ now' = t
  /\ UNCHANGED <<cfg, registryVars, cacheVars, segVars, _token, gt, posts, primaryVars,
                 audioVars, flagVars, connVars, recvVars, sendVars, loopVars,
                 bufVars, bridgeVars>>

\* Line 36: no token is cached, or the cached one has expired.
Stale == _token = NoToken \/ _token.expire_at < now

\* What a step of get_token leaves alone.
tokenFrame ==
  <<cfg, registryVars, cacheVars, segVars, now, primaryVars, audioVars, flagVars, connVars,
    recvVars, sendVars, loopVars, bufVars, bridgeVars>>

\* Line 64: the cached token is good and is returned.
GetTokenCached ==
  /\ gt.pc = "idle"
  /\ ~ Stale
  /\ gt' = [pc |-> "ret", result |-> _token.access_token]
  /\ UNCHANGED <<tokenFrame, _token, posts>>

\* Lines 37-44: the request is made.
GetTokenPost ==
  /\ gt.pc = "idle"
  /\ Stale
  /\ posts < MaxPosts
  /\ posts' = posts + 1
  /\ gt' = [pc |-> "post", result |-> None]
  /\ UNCHANGED <<tokenFrame, _token>>

\* The ways a request ends: a reply with status 200 and an access token, a
\* reply with another status (lines 46-48), an exception raised by post(),
\* by resp.json() or by the missing key (lines 60-62).
Replies == {"ok", "status", "raise"}

\* get_token forgetting the cached token when the request fails
GetTokenReplyForgetsOnFailure ==
  /\ gt.pc = "post"
  /\ \E reply \in Replies, a \in AccessTokens :
       IF reply = "ok"
       THEN /\ _token' = TokenDict(a, now)
            /\ gt' = [pc |-> "ret", result |-> a]
       ELSE /\ _token' = NoToken
            /\ gt' = [pc |-> "ret", result |-> None]
  /\ UNCHANGED <<tokenFrame, posts>>

\* Lines 46-62: the request has ended.  On success the dict is built whole
\* and then assigned (lines 53-56), and its access token returned; on
\* failure None is returned.
GetTokenReply ==
  /\ gt.pc = "post"
  /\ \E reply \in Replies, a \in AccessTokens :
       IF reply = "ok"
       THEN /\ _token' = TokenDict(a, now)
            /\ gt' = [pc |-> "ret", result |-> a]
       ELSE /\ gt' = [pc |-> "ret", result |-> None]
            /\ UNCHANGED _token
  /\ UNCHANGED <<tokenFrame, posts>>

\* The caller has the result; the next call may begin.
GetTokenReturn ==
  /\ gt.pc = "ret"
  /\ gt' = [pc |-> "idle", result |-> None]
  /\ UNCHANGED <<tokenFrame, _token, posts>>

TokenInit == InitWith(SessionCfg)

TokenNext == Tick \/ GetTokenCached \/ GetTokenPost \/ GetTokenReply \/ GetTokenReturn

TokenSpec == TokenInit /\ [][TokenNext]_vars

\* C37: the endpoint is asked only when no token is cached or the cached one
\* has expired, and otherwise the cached access token is returned; a request
\* that fails returns None and leaves the cached token as it was; the cached
\* token changes only when a request succeeds, to the whole new dict.
TokenRefreshedLazily ==
  /\ [][posts' # posts => (_token = NoToken \/ _token.expire_at < now)]_vars
  /\ [][(/\ gt.pc = "idle" /\ gt'.pc # "idle"
         /\ _token # NoToken /\ _token.expire_at >= now)
          => /\ gt' = [pc |-> "ret", result |-> _token.access_token]
             /\ posts' = posts /\ _token' = _token]_vars
  /\ [][(gt.pc = "post" /\ gt'.pc = "ret")
          => IF gt'.result = None THEN _token' = _token
             ELSE _token' = [access_token |-> gt'.result,
                             expire_at |-> now + TOKEN_TTL]]_vars
  /\ [][_token' # _token
          => (gt.pc = "post" /\ gt'.pc = "ret" /\ gt'.result # None)]_vars

\* A refresh of an expired token has just failed: None is returned and the
\* expired token is still cached.
FailedRefreshKeepsToken ==
  /\ gt = [pc |-> "ret", result |-> None]
  /\ _token # NoToken /\ _token.expire_at < now
  /\ posts >= 2

\* ------------------------------------------------- the text of a batch
\* The list _process_sentences joins when the buffer holds sentences cs and
\* partial text p.
WithPartial(cs, p) == IF p # <<>> THEN Append(cs, p) ELSE cs

\* Fragments that leave a partial text: a word alone, and four sentences
\* followed by a word.
PartialTexts == {<<"a">>, FourSentences \o <<" ", "a">>}

PartialCfg ==
  [frames |-> 0, msgs |-> MaxCalls,
   kinds |-> {Msg(TRUE, t, TRUE, FALSE) : t \in PartialTexts}]

PartialInit == LinkUpWith(PartialCfg)

PartialSpec == PartialInit /\ [][BufferNext]_vars

\* C38: when a flush, inline or by timer, has put its list together, the
\* list is all of current_sentences, in order, followed by partial_text when
\* there is one, and the batch text before correction is that list joined
\* by single blanks.
BatchIsWholeBuffer ==
  /\ [][/\ (at.pc = "p_partial" /\ at'.pc = "p_ctx")
           => at'.stp = WithPartial(current_sentences, partial_text)
        /\ \A t \in 1..Len(timers) :
             (timers[t].pc = "p_partial" /\ timers'[t].pc = "p_ctx")
               => timers'[t].stp = WithPartial(current_sentences, partial_text)
        /\ (at.pc = "p_ctx" /\ at'.pc = "p_hist") => at'.text = Join(at.stp)
        /\ \A t \in 1..Len(timers) :
             (timers[t].pc = "p_ctx" /\ timers'[t].pc = "p_hist")
               => timers'[t].text = Join(timers[t].stp)]_vars

\* An inline flush at the threshold has joined the sentences and a partial
\* text after them.
InlineFlushWithPartial ==
  /\ at.pc = "p_hist"
  /\ Len(current_sentences) >= TARGET_SENTENCES
  /\ Len(at.stp) = Len(current_sentences) + 1
  /\ at.text = Join(at.stp)

\* --------------------------------------- _split_into_sentences taken alone
\* How many words a text given to _split_into_sentences holds.
MaxWords == 3

\* Words: plain, ending with a suffix, ending with two suffixes at once,
\* beginning with a particle, both, and ending with punctuation.
SegWords ==
  {<<"a">>, <<"a", "d">>, <<"n", "g">>, <<"n", "a">>, <<"n", "d">>,
   <<"a", ".">>, <<"g", "?">>}

\* The sequences of upto n words.
RECURSIVE WordLists(_)
WordLists(n) ==
  IF n = 0 THEN {<<>>}
  ELSE LET shorter == WordLists(n - 1)
       IN shorter \cup {Append(l, w) : l \in shorter, w \in SegWords}

\* The words of l written with sep between them and pad around them.
RECURSIVE Spell(_, _, _)
Spell(l, sep, pad) ==
  IF l = <<>> THEN pad
  ELSE IF Len(l) = 1 THEN pad \o l[1] \o pad
  ELSE pad \o l[1] \o sep \o Spell(Tail(l), sep, <<>>) \o pad

\* The texts: words one blank apart, and words two blanks apart with a
\* blank before and after.
SegTexts ==
  {Spell(l, <<Blank>>, <<>>) : l \in WordLists(MaxWords)}
  \cup {Spell(l, <<Blank, Blank>>, <<Blank>>) : l \in WordLists(MaxWords)}

\* The orders in which a set may hand out the members of sentence_endings.
Orders ==
  {o \in [1..Cardinality(sentence_endings) -> sentence_endings] :
     \A e \in sentence_endings : \E k \in DOMAIN o : o[k] = e}

\* The particle test of line 139.
StartsWithParticle(word) == \E q \in particles : StartsWith(word, q)

\* the loop over the suffixes setting is_sentence_end whatever word follows
RECURSIVE EndingLoopIgnoresNext(_, _, _, _)
EndingLoopIgnoresNext(words, i, order, k) ==
  IF k > Len(order) THEN FALSE
  ELSE IF EndsWith(words[i], order[k]) THEN TRUE
  ELSE EndingLoopIgnoresNext(words, i, order, k + 1)

\* Lines 133-145: the loop over self.sentence_endings from its k-th member
\* on, in the order the set hands them out; TRUE when is_sentence_end is set.
\* A suffix that matches before a particle does not end the loop.
RECURSIVE EndingLoop(_, _, _, _)
EndingLoop(words, i, order, k) ==
  IF k > Len(order) THEN FALSE
  ELSE IF EndsWith(words[i], order[k])
         THEN IF i + 1 <= Len(words)
                THEN IF ~ StartsWithParticle(words[i + 1]) THEN TRUE
                     ELSE EndingLoop(words, i, order, k + 1)
                ELSE TRUE
         ELSE EndingLoop(words, i, order, k + 1)

\* Lines 126-145: is_sentence_end for words[i].
IsSentenceEndLoop(words, i, order) ==
  IF words[i][Len(words[i])] \in punctuation THEN TRUE
  ELSE EndingLoop(words, i, order, 1)

\* What a step of the call leaves alone.
segFrame ==
  <<cfg, registryVars, cacheVars, tokenVars, primaryVars, audioVars, flagVars,
    connVars, recvVars, sendVars, loopVars, bufVars, bridgeVars>>

\* Lines 117-120: the call is entered with text; ends records the indices
\* of the words at which is_sentence_end was set.
SegStart(text, order) ==
  [pc |-> "loop", text |-> text, order |-> order, words |-> Split(text), i |-> 1,
   current |-> <<>>, sentences |-> <<>>, remaining |-> <<>>, ends |-> {}]

\* one pass of the loop that puts no blank after a word
SegWordNoBlank ==
  /\ seg.pc = "loop"
  /\ seg.i <= Len(seg.words)
  /\ LET current == seg.current \o seg.words[seg.i]
     IN IF IsSentenceEndLoop(seg.words, seg.i, seg.order)
          THEN seg' = [seg EXCEPT !.sentences = Append(@, Strip(current)),
                                  !.current = <<>>, !.i = @ + 1,
                                  !.ends = @ \cup {seg.i}]
          ELSE seg' = [seg EXCEPT !.current = current, !.i = @ + 1]
  /\ UNCHANGED segFrame

\* Lines 122-151: one pass of the loop, for words[i].
SegWord ==
  /\ seg.pc = "loop"
  /\ seg.i <= Len(seg.words)
  /\ LET current == seg.current \o seg.words[seg.i]
     IN IF IsSentenceEndLoop(seg.words, seg.i, seg.order)
          THEN seg' = [seg EXCEPT !.sentences = Append(@, Strip(current)),
                                  !.current = <<>>, !.i = @ + 1,
                                  !.ends = @ \cup {seg.i}]
          ELSE seg' = [seg EXCEPT !.current = current \o <<Blank>>, !.i = @ + 1]
  /\ UNCHANGED segFrame

\* Lines 154-156: the loop is over; remaining is set and the pair returned.
SegReturn ==
  /\ seg.pc = "loop"
  /\ seg.i > Len(seg.words)
  /\ seg' = [seg EXCEPT !.pc = "done", !.remaining = Strip(seg.current)]
  /\ UNCHANGED segFrame

SegInit ==
  /\ cfg = SessionCfg /\ EnvInit /\ PipelineInit
  /\ \E text \in SegTexts, order \in Orders : seg = SegStart(text, order)

SegNext == SegWord \/ SegReturn

SegSpec == SegInit /\ [][SegNext]_vars

\* A word ends a sentence by the rule: it ends with punctuation, or it ends
\* with a suffix and is the last word or the next word begins with no
\* particle.
EndsByRule(words, j) ==
  \/ \E c \in {".", "!", "?"} : words[j][Len(words[j])] = c
  \/ /\ \E e \in sentence_endings : EndsWith(words[j], e)
     /\ \/ j = Len(words)
        \/ /\ j < Len(words)
           /\ \A q \in particles : ~ StartsWith(words[j + 1], q)

\* C39: the words at which a sentence was ended are those that end one by
\* the rule, in whatever order the suffixes were tried, and the pair returned
\* is that of the rule.
EndsExactlyByRule ==
  /\ seg.pc \in {"loop", "done"} =>
       \A j \in 1..(seg.i - 1) : (j \in seg.ends) <=> EndsByRule(seg.words, j)
  /\ seg.pc = "done" =>
       /\ seg.sentences = SplitIntoSentences(seg.text).sentences
       /\ seg.remaining = SplitIntoSentences(seg.text).remaining

\* A call has returned in which a word with two suffixes was followed by a
\* particle and did not end a sentence, and a later word did.
SuffixBeforeParticle ==
  /\ seg.pc = "done"
  /\ \E j \in 1..(Len(seg.words) - 1) :
       /\ seg.words[j] = <<"n", "g">>
       /\ StartsWithParticle(seg.words[j + 1])
       /\ j \notin seg.ends
  /\ seg.ends # {}
  /\ seg.order[1] = <<"n", "g">>

\* The sentences and the remaining text, when there is one.
PartsOf(f) ==
  f.sentences \o (IF f.remaining # <<>> THEN <<f.remaining>> ELSE <<>>)

\* C40: no sentence returned is empty, and the sentences followed by the
\* remaining text, joined by single blanks, are the words of the text joined
\* by single blanks; during the loop the same holds of the sentences so
\* far, the current text and the words still to come.
SplitIsPartition ==
  /\ seg.pc = "loop" =>
       Join(seg.sentences \o (IF Strip(seg.current) # <<>>
                                THEN <<Strip(seg.current)>> ELSE <<>>)
              \o SubSeq(seg.words, seg.i, Len(seg.words))) = Join(seg.words)
  /\ seg.pc = "done" =>
       /\ \A k \in 1..Len(seg.sentences) : seg.sentences[k] # <<>>
       /\ Join(PartsOf(seg)) = Join(Split(seg.text))

\* A call on a padded text has returned two sentences and a remaining text.
SentencesAndRemaining ==
  /\ seg.pc = "done"
  /\ seg.text # <<>> /\ seg.text[1] = Blank
  /\ Len(seg.sentences) = 2
  /\ seg.remaining # <<>>

=============================================================================
